---- MODULE Spec2Model ----
(***************************************************************************)
(* Verification model of the liquidation bot (crates/core, crates/chain).  *)
(*                                                                         *)
(* Units.  Token amounts are raw integer balances, oracle prices are       *)
(* integers, and a USD value (value_usd, an f64 in the code) is held as    *)
(* the exact integer amount * price: the price unit is chosen so that one  *)
(* unit of value is one USD.  Ratios that the code holds as f64 (health    *)
(* factor and its thresholds) are held in hundredths, rounded down: 1.02   *)
(* is 102, 1.0 is 100, f64::MAX is HF_MAX.  Profit figures are held in     *)
(* thousandths of a USD.  Liquidation thresholds and price moves are basis *)
(* points as in the code.  Instants are not modelled as numbers: a staged  *)
(* entry carries a flag that tells whether the clock has passed its        *)
(* valid_until.                                                            *)
(***************************************************************************)
EXTENDS Integers, Sequences, FiniteSets, TLC

\* ---------------------------------------------------------------- bounds
NumUsers == 2
NumAssets == 2
MaxAmount == 2

Users == 1..NumUsers
Assets == 1..NumAssets
\* Option::None for record-valued options, for Option<PositionTier>, and
\* for Option<OraclePrice>
None == [none |-> TRUE]
NoTier == "NoTier"
NoPrice == -1

\* ------------------------------------------------- configuration values
critical_hf_threshold == 102
hot_hf_threshold == 108
warm_hf_threshold == 115
critical_trigger_distance_pct == 1
hot_trigger_distance_pct == 3
warm_trigger_distance_pct == 7
dust_threshold_cents == 10
bad_debt_hf_threshold == 1
MAX_CRITICAL_POSITIONS == 64
HF_MAX == 1000000
DEFAULT_TRIGGER_DISTANCE == 100
staging_hf_threshold == 105
min_debt_usd_to_stage_e4 == 1
price_deviation_threshold_bps == 50
ESTIMATED_GAS_COST_USD == 30
CLOSE_FACTOR_PCT == 50
min_profit_usd == 0
NoUsd == -1
LIQUIDATION_CHANNEL_CAPACITY == 100
RECONNECT_DELAY_SECS == 5
BASE_DELAY_MS == 200
MAX_AMOUNT == 2147483647
MaxRetries == 5
CoverSupply == 4
MaxCoverAmount == 7
MaxOutput == 8
MaxRouters == 3
NumWriters == 2

MaxPrice == 9

Tiers == {"Critical", "Hot", "Warm", "Cold"}
Prices == 0..MaxPrice

NumScanUsers == 1
MaxQueue == 2
MaxScanAmount == 1
MaxNonce == 3

ScanUsers == 1..NumScanUsers

VARIABLES
    tracker,     \* PositionTracker: tier containers, indices, price cache
    live,        \* history: users upserted and not removed since
    lastQuery,   \* history: the last call observed (a query, a cache read,
                 \* an execute_liquidation) and its result
    staged,      \* PreStager.staged: user -> StagedLiquidation
    oracle,      \* environment: on-chain oracle price of every asset
    chain,       \* environment: on-chain balances of every user
    channel,     \* the liquidation mpsc channel, oldest first
    job,         \* a stage_position call suspended on the swap-route fetch
    lastSends,   \* history: users the last handler placed on the channel
    lastTx,      \* history: the liquidation transaction submitted last
    nonce_current,  \* NonceManager.current of the signer
    ledger,      \* environment: status of the mined transactions, by nonce
    mempool,     \* environment: nonces accepted by the node and not mined
    submissions, \* history: the accepted submissions, in order
    task,        \* position of each task that executes liquidations
    upserting,   \* an upsert call between its remove and its insert (one
                 \* per task where several tasks upsert)
    reader,      \* a get call walking the tier containers
    sender,      \* the oracle handler in progress: the sends it has still
                 \* to make, or the step of on_oracle_update it is at
    stream,      \* position of each event-stream task
    retry        \* an execute_with_retry call in progress

trackerVars == <<tracker, live, lastQuery>>

signerVars == <<nonce_current, ledger, mempool, submissions, task>>

scanVars == <<staged, oracle, chain, channel, job, lastSends, lastTx>>

scannerVars == <<scanVars, signerVars>>

loopVars == <<upserting, reader, sender, stream, retry>>

vars == <<tracker, live, lastQuery, staged, oracle, chain, channel, job,
          lastSends, lastTx, signerVars, loopVars>>

\* ------------------------------------------------------------ utilities
RECURSIVE Pow10(_)
Pow10(n) ==
    IF n = 0 THEN 1 ELSE 10 * Pow10(n - 1)

RECURSIVE SumSeq(_)
SumSeq(s) ==
    IF s = <<>> THEN 0 ELSE Head(s) + SumSeq(Tail(s))

MapSeq(s, Op(_)) ==
    [i \in 1..Len(s) |-> Op(s[i])]

SeqToSet(s) ==
    {s[i] : i \in 1..Len(s)}

\* balances reader: token decimals and the liquidation threshold attached
\* to every BalanceData (provider.rs fills in 8000 for every entry)
Decimals(asset) ==
    1

LiquidationThreshold(asset) ==
    8000

\* ------------------------------------------------------ position.rs
from_health_factor(hf) ==
    IF hf < critical_hf_threshold THEN "Critical"
    ELSE IF hf < hot_hf_threshold THEN "Hot"
    ELSE IF hf < warm_hf_threshold THEN "Warm"
    ELSE "Cold"

from_trigger_distance(distance_pct) ==
    IF distance_pct < critical_trigger_distance_pct THEN "Critical"
    ELSE IF distance_pct < hot_trigger_distance_pct THEN "Hot"
    ELSE IF distance_pct < warm_trigger_distance_pct THEN "Warm"
    ELSE "Cold"

classify(hf, trigger_distance_pct) ==
    LET by_hf == from_health_factor(hf)
        by_trigger == from_trigger_distance(trigger_distance_pct)
    IN  IF by_hf = "Critical" \/ by_trigger = "Critical" THEN "Critical"
        ELSE IF by_hf = "Hot" \/ by_trigger = "Hot" THEN "Hot"
        ELSE IF by_hf = "Warm" \/ by_trigger = "Warm" THEN "Warm"
        ELSE "Cold"

\* u256_math::calculate_usd_f64: amount * price scaled by the decimals of
\* the token and of the price; the scale is the unit of the model's prices
calculate_usd_value(amount, price, decimals) ==
    amount * price

risk_adjusted_bps(c) ==
    c.value_usd * c.liquidation_threshold

EnabledCollaterals(p) ==
    SelectSeq(p.collaterals, LAMBDA c : c.enabled)

total_collateral_adjusted_bps(p) ==
    SumSeq(MapSeq(EnabledCollaterals(p), risk_adjusted_bps))

total_collateral_usd(p) ==
    SumSeq(MapSeq(p.collaterals, LAMBDA c : c.value_usd))

total_debt_usd(p) ==
    SumSeq(MapSeq(p.debts, LAMBDA d : d.value_usd))

calculate_health_factor(p) ==
    IF total_debt_usd(p) = 0 THEN HF_MAX
    ELSE total_collateral_adjusted_bps(p) \div (100 * total_debt_usd(p))

is_liquidatable(p) ==
    p.health_factor < 100

\* max_by keeps the last of several equal maxima
RECURSIVE MaxByValue(_)
MaxByValue(s) ==
    IF Len(s) = 0 THEN None
    ELSE IF Len(s) = 1 THEN s[1]
    ELSE LET rest == MaxByValue(Tail(s))
         IN  IF rest.value_usd >= Head(s).value_usd THEN rest ELSE Head(s)

largest_collateral(p) ==
    MaxByValue(EnabledCollaterals(p))

largest_debt(p) ==
    MaxByValue(p.debts)

is_bad_debt(p) ==
    \/ total_collateral_usd(p) * 100 < dust_threshold_cents
    \/ p.health_factor < bad_debt_hf_threshold
    \/ /\ Len(p.collaterals) = 1
       /\ Len(p.debts) = 1
       /\ p.collaterals[1].asset = p.debts[1].asset
    \/ /\ largest_collateral(p) # None
       /\ largest_debt(p) # None
       /\ largest_collateral(p).asset = largest_debt(p).asset

\* DefaultHasher over (address, amount) of the collaterals, then of the
\* debts, fed into one stream: the hash is a function of that sequence
compute_state_hash(p) ==
    MapSeq(p.collaterals, LAMBDA c : <<c.asset, c.amount>>)
        \o MapSeq(p.debts, LAMBDA d : <<d.asset, d.amount>>)

TrackedPositionNew(user) ==
    [user |-> user, health_factor |-> HF_MAX, tier |-> "Cold",
     min_trigger_distance_pct |-> DEFAULT_TRIGGER_DISTANCE,
     collaterals |-> <<>>, debts |-> <<>>,
     sensitivity |-> None, state_hash |-> <<>>,
     pre_event |-> FALSE]

\* ------------------------------------------------------ trigger_index.rs
is_triggered_open(t, old_price, new_price) ==
    IF t.direction = "Down"
    THEN new_price < t.trigger_price /\ old_price > t.trigger_price
    ELSE new_price > t.trigger_price /\ old_price < t.trigger_price

is_triggered(t, old_price, new_price) ==
    IF t.direction = "Down"
    THEN new_price <= t.trigger_price /\ old_price > t.trigger_price
    ELSE new_price >= t.trigger_price /\ old_price < t.trigger_price

PushTrigger(tba, asset, entry) ==
    [tba EXCEPT ![asset] = Append(@, entry)]

\* trigger of one collateral: (total_debt - other collateral) / (amount * lt),
\* truncated by the `as u128` cast
CollateralTrigger(p, c) ==
    LET other_collateral_adjusted ==
            SumSeq(MapSeq(SelectSeq(p.collaterals,
                       LAMBDA o : o.asset # c.asset /\ o.enabled),
                   risk_adjusted_bps))
        required_value == 10000 * total_debt_usd(p) - other_collateral_adjusted
    IN  IF ~c.enabled \/ c.value_usd <= 0 THEN None
        ELSE IF required_value <= 0 THEN None
        ELSE IF c.amount <= 0 \/ c.liquidation_threshold <= 0 THEN None
        ELSE [user |-> p.user,
              trigger_price |->
                  required_value \div (c.amount * c.liquidation_threshold),
              direction |-> "Down",
              current_hf |-> p.health_factor]

\* trigger of one debt: (collateral adjusted - other debt) * 10^decimals /
\* amount_f64, where amount_f64 is the amount in whole tokens
\* (wad_to_f64 of amount * 10^(18 - decimals)), truncated by `as u128`
DebtTrigger(p, d) ==
    LET other_debt ==
            SumSeq(MapSeq(SelectSeq(p.debts, LAMBDA o : o.asset # d.asset),
                          LAMBDA o : o.value_usd))
        trigger_debt_value ==
            total_collateral_adjusted_bps(p) - 10000 * other_debt
    IN  IF d.value_usd <= 0 THEN None
        ELSE IF trigger_debt_value <= 0 THEN None
        ELSE IF d.amount <= 0 THEN None
        ELSE [user |-> p.user,
              trigger_price |->
                  (trigger_debt_value * Pow10(d.decimals))
                      \div (10000 * d.amount),
              direction |-> "Up",
              current_hf |-> p.health_factor]

RECURSIVE AddCollateralTriggers(_, _, _)
AddCollateralTriggers(tba, p, i) ==
    IF i > Len(p.collaterals) THEN tba
    ELSE LET e == CollateralTrigger(p, p.collaterals[i])
         IN  AddCollateralTriggers(
                 IF e = None THEN tba
                 ELSE PushTrigger(tba, p.collaterals[i].asset, e),
                 p, i + 1)

RECURSIVE AddDebtTriggers(_, _, _)
AddDebtTriggers(tba, p, i) ==
    IF i > Len(p.debts) THEN tba
    ELSE LET e == DebtTrigger(p, p.debts[i])
         IN  AddDebtTriggers(
                 IF e = None THEN tba
                 ELSE PushTrigger(tba, p.debts[i].asset, e),
                 p, i + 1)

add_position_triggers(tba, p) ==
    IF total_debt_usd(p) <= 0 THEN tba
    ELSE AddDebtTriggers(AddCollateralTriggers(tba, p, 1), p, 1)

remove_user(tba, user) ==
    [a \in Assets |-> SelectSeq(tba[a], LAMBDA t : t.user # user)]

update_position(tba, p) ==
    add_position_triggers(remove_user(tba, p.user), p)

RECURSIVE rebuild(_, _)
rebuild(tba, positions) ==
    IF positions = <<>> THEN tba
    ELSE rebuild(add_position_triggers(tba, Head(positions)), Tail(positions))

get_liquidatable_at(tba, asset, new_price, old_price) ==
    MapSeq(SelectSeq(tba[asset],
                     LAMBDA t : is_triggered(t, old_price, new_price)),
           LAMBDA t : t.user)

\* ---------------------------------------------------- position_tracker.rs
EmptyMap ==
    [u \in {} |-> None]

MapInsert(m, k, v) ==
    [x \in DOMAIN m \cup {k} |-> IF x = k THEN v ELSE m[x]]

MapRemove(m, k) ==
    [x \in DOMAIN m \ {k} |-> m[x]]

PositionTrackerNew ==
    [critical |-> <<>>, hot |-> EmptyMap, warm |-> EmptyMap, cold |-> EmptyMap,
     collateral_holders |-> [a \in Assets |-> {}],
     debt_holders |-> [a \in Assets |-> {}],
     triggers_by_asset |-> [a \in Assets |-> <<>>],
     prices |-> [a \in Assets |-> NoPrice]]

remove(t, user) ==
    [t EXCEPT
        !.critical = SelectSeq(@, LAMBDA p : p.user # user),
        !.hot = MapRemove(@, user),
        !.warm = MapRemove(@, user),
        !.cold = MapRemove(@, user),
        !.collateral_holders = [a \in Assets |-> @[a] \ {user}],
        !.debt_holders = [a \in Assets |-> @[a] \ {user}],
        !.triggers_by_asset = remove_user(@, user)]

reverse_indices_collateral_only(t, p) ==
    [t EXCEPT
        !.collateral_holders =
            [a \in Assets |->
                IF \E i \in 1..Len(p.collaterals) : p.collaterals[i].asset = a
                THEN @[a] \cup {p.user} ELSE @[a]]]

update_reverse_indices(t, p) ==
    [t EXCEPT
        !.collateral_holders =
            [a \in Assets |->
                IF \E i \in 1..Len(p.collaterals) : p.collaterals[i].asset = a
                THEN @[a] \cup {p.user} ELSE @[a]],
        !.debt_holders =
            [a \in Assets |->
                IF \E i \in 1..Len(p.debts) : p.debts[i].asset = a
                THEN @[a] \cup {p.user} ELSE @[a]]]

\* the match on the tier in upsert: Critical goes to the fixed-capacity
\* buffer, or to the hot map when the buffer is full
insert_dropping_overflow(t, p) ==
    IF p.tier = "Critical"
    THEN IF Len(t.critical) < MAX_CRITICAL_POSITIONS
         THEN [t EXCEPT !.critical = Append(@, p)]
         ELSE t
    ELSE IF p.tier = "Hot" THEN [t EXCEPT !.hot = MapInsert(@, p.user, p)]
    ELSE IF p.tier = "Warm" THEN [t EXCEPT !.warm = MapInsert(@, p.user, p)]
    ELSE [t EXCEPT !.cold = MapInsert(@, p.user, p)]

InsertIntoTier(t, p) ==
    IF p.tier = "Critical"
    THEN IF Len(t.critical) < MAX_CRITICAL_POSITIONS
         THEN [t EXCEPT !.critical = Append(@, p)]
         ELSE [t EXCEPT !.hot = MapInsert(@, p.user, p)]
    ELSE IF p.tier = "Hot" THEN [t EXCEPT !.hot = MapInsert(@, p.user, p)]
    ELSE IF p.tier = "Warm" THEN [t EXCEPT !.warm = MapInsert(@, p.user, p)]
    ELSE [t EXCEPT !.cold = MapInsert(@, p.user, p)]

upsert_without_remove(t, user) ==
    t

RemoveBeforeInsert(t, user) ==
    remove(t, user)

upsert(t, p) ==
    LET t1 == RemoveBeforeInsert(t, p.user)
        t2 == update_reverse_indices(t1, p)
        t3 == InsertIntoTier(t2, p)
    IN  [t3 EXCEPT !.triggers_by_asset = update_position(@, p)]

get(t, user) ==
    IF \E i \in 1..Len(t.critical) : t.critical[i].user = user
    THEN t.critical[CHOOSE i \in 1..Len(t.critical) :
                        /\ t.critical[i].user = user
                        /\ \A j \in 1..(i - 1) : t.critical[j].user # user]
    ELSE IF user \in DOMAIN t.hot THEN t.hot[user]
    ELSE IF user \in DOMAIN t.warm THEN t.warm[user]
    ELSE IF user \in DOMAIN t.cold THEN t.cold[user]
    ELSE None

get_tier(t, user) ==
    IF \E i \in 1..Len(t.critical) : t.critical[i].user = user THEN "Critical"
    ELSE IF user \in DOMAIN t.hot THEN "Hot"
    ELSE IF user \in DOMAIN t.warm THEN "Warm"
    ELSE IF user \in DOMAIN t.cold THEN "Cold"
    ELSE NoTier

re_tier(t, user, new_hf, new_trigger_distance) ==
    LET new_tier == classify(new_hf, new_trigger_distance)
        old_pos == get(t, user)
    IN  IF get_tier(t, user) = new_tier THEN t
        ELSE IF old_pos = None THEN t
        ELSE upsert(t, [old_pos EXCEPT
                            !.health_factor = new_hf,
                            !.min_trigger_distance_pct = new_trigger_distance,
                            !.tier = new_tier])

RECURSIVE MapValues(_, _)
MapValues(m, keys) ==
    IF keys = {} THEN <<>>
    ELSE LET k == CHOOSE x \in keys : \A y \in keys : x <= y
         IN  <<m[k]>> \o MapValues(m, keys \ {k})

critical_positions(t) ==
    t.critical

all_positions(t) ==
    t.critical \o MapValues(t.hot, DOMAIN t.hot)
        \o MapValues(t.warm, DOMAIN t.warm)
        \o MapValues(t.cold, DOMAIN t.cold)

users_affected_by_asset(t, asset) ==
    t.collateral_holders[asset] \cup t.debt_holders[asset]

update_price(t, asset, price) ==
    [t EXCEPT !.prices[asset] = price]

get_price(t, asset) ==
    t.prices[asset]

rebuild_trigger_index(t) ==
    [t EXCEPT !.triggers_by_asset =
                  rebuild([a \in Assets |-> <<>>], all_positions(t))]

\* ------------------------------------------- scanner.rs, position building
\* what the balances reader returns for one side of a position: one
\* BalanceData per asset with a non-zero balance
RECURSIVE BalanceEntries(_, _, _)
BalanceEntries(amounts, prices, a) ==
    IF a > NumAssets THEN <<>>
    ELSE (IF amounts[a] > 0
          THEN <<[underlying |-> a, amount |-> amounts[a], price |-> prices[a],
                  decimals |-> Decimals(a),
                  liquidation_threshold |-> LiquidationThreshold(a)]>>
          ELSE <<>>) \o BalanceEntries(amounts, prices, a + 1)

CollateralFromSupply(supply) ==
    [asset |-> supply.underlying, amount |-> supply.amount,
     price |-> supply.price, decimals |-> supply.decimals,
     value_usd |-> calculate_usd_value(supply.amount, supply.price,
                                       supply.decimals),
     liquidation_threshold |-> supply.liquidation_threshold,
     enabled |-> TRUE]

DebtFromBorrow(borrow) ==
    [asset |-> borrow.underlying, amount |-> borrow.amount,
     price |-> borrow.price, decimals |-> borrow.decimals,
     value_usd |-> calculate_usd_value(borrow.amount, borrow.price,
                                       borrow.decimals)]

\* process_wallet / update_position_from_data up to the state hash
BuildPosition(user, supplies, borrows) ==
    LET p0 == [TrackedPositionNew(user) EXCEPT
                   !.collaterals = MapSeq(supplies, CollateralFromSupply),
                   !.debts = MapSeq(borrows, DebtFromBorrow)]
        p1 == [p0 EXCEPT !.health_factor = calculate_health_factor(p0)]
        p2 == [p1 EXCEPT !.tier = classify(p1.health_factor,
                                           p1.min_trigger_distance_pct)]
    IN  [p2 EXCEPT !.state_hash = compute_state_hash(p2)]

\* ---------------------------------------------------- tracker interface
Balances ==
    [Assets -> 0..MaxAmount]

\* a balance sheet with a single asset (asset 0: none at all)
OnlyAsset(asset, amount) ==
    [a \in Assets |-> IF a = asset THEN amount ELSE 0]

\* prices at which the balances of the interface-level runs are valued
FetchPrice(a) ==
    IF a = 1 THEN 5 ELSE 4

FetchPrices ==
    [a \in Assets |-> FetchPrice(a)]

FetchedPosition(user, supply, borrow, prices) ==
    BuildPosition(user, BalanceEntries(supply, prices, 1),
                  BalanceEntries(borrow, prices, 1))

HfInputs ==
    {101, 105, 110, 120}

DistanceInputs ==
    {0, DEFAULT_TRIGGER_DISTANCE}

Tasks ==
    {"consumer", "bootstrap"}

\* the two event-stream tasks Scanner::run spawns
StreamTasks ==
    {"oracle", "pool"}

\* no tracker call, handler send, or retry call is in progress, and the
\* event-stream tasks are about to subscribe for the first time
LoopsIdle ==
    /\ upserting = None
    /\ reader = None
    /\ sender = <<>>
    /\ stream = [t \in StreamTasks |->
                    [pc |-> "subscribe", elapsed |-> 0, exit |-> "none",
                     handling |-> FALSE]]
    /\ retry = None

\* the signer as TransactionSender::new leaves it: the nonce manager starts
\* at the account's transaction count
SignerIdle ==
    /\ nonce_current = 0
    /\ ledger = <<>>
    /\ mempool = {}
    /\ submissions = <<>>
    /\ task = [t \in Tasks |-> [pc |-> "idle", phase |-> "none", nonce |-> 0]]

ScannerIdle ==
    /\ staged = [u \in ScanUsers |-> None]
    /\ oracle = FetchPrices
    /\ chain = [u \in ScanUsers |-> [supply |-> OnlyAsset(0, 0),
                                     borrow |-> OnlyAsset(0, 0)]]
    /\ channel = <<>>
    /\ job = None
    /\ lastSends = <<>>
    /\ lastTx = None
    /\ SignerIdle
    /\ LoopsIdle

Init ==
    /\ tracker = PositionTrackerNew
    /\ live = {}
    /\ lastQuery = None
    /\ ScannerIdle

Upsert(user, supply, borrow, tier) ==
    /\ tracker' = upsert(tracker,
           [FetchedPosition(user, supply, borrow, FetchPrices)
                EXCEPT !.tier = tier])
    /\ live' = live \cup {user}
    /\ UNCHANGED <<lastQuery, loopVars, scannerVars>>

Remove(user) ==
    /\ tracker' = remove(tracker, user)
    /\ live' = live \ {user}
    /\ UNCHANGED <<lastQuery, loopVars, scannerVars>>

ReTier(user, new_hf, new_trigger_distance) ==
    /\ tracker' = re_tier(tracker, user, new_hf, new_trigger_distance)
    /\ UNCHANGED <<live, lastQuery, loopVars, scannerVars>>

Next ==
    \/ \E u \in Users, ca \in Assets, da \in {0} \cup Assets, tr \in Tiers :
           Upsert(u, OnlyAsset(ca, 1), OnlyAsset(da, 1), tr)
    \/ \E u \in Users : Remove(u)
    \/ \E u \in Users, hf \in HfInputs, d \in DistanceInputs : ReTier(u, hf, d)

Spec ==
    Init /\ [][Next]_vars

\* number of tier containers (slots of the critical buffer, hot, warm and
\* cold maps) that hold the user
ContainerCount(t, user) ==
    Cardinality({i \in 1..Len(t.critical) : t.critical[i].user = user})
        + (IF user \in DOMAIN t.hot THEN 1 ELSE 0)
        + (IF user \in DOMAIN t.warm THEN 1 ELSE 0)
        + (IF user \in DOMAIN t.cold THEN 1 ELSE 0)

\* C1: after any sequence of upsert, remove and re_tier calls, every user
\* that was upserted and not removed since is held by exactly one of the
\* four tier containers, and no user is held by more than one
C1_ExactlyOneTier ==
    \A u \in Users :
        /\ u \in live => ContainerCount(tracker, u) = 1
        /\ ContainerCount(tracker, u) <= 1

\* a tracked user whose snapshot was moved to another container by re_tier
\* (its stored health factor is the one re_tier was given), next to a second
\* tracked user
C1_Witness ==
    /\ live = Users
    /\ \E u \in Users :
           /\ get(tracker, u) # None
           /\ get(tracker, u).health_factor
                  # calculate_health_factor(get(tracker, u))
           /\ get_tier(tracker, u) = get(tracker, u).tier
           /\ ContainerCount(tracker, u) = 1

ListsAsset(p, asset) ==
    \/ \E i \in 1..Len(p.collaterals) : p.collaterals[i].asset = asset
    \/ \E i \in 1..Len(p.debts) : p.debts[i].asset = asset

\* C12: after any sequence of upsert, remove and re_tier calls,
\* users_affected_by_asset(A) is exactly the set of tracked users whose
\* latest snapshot lists A as a collateral asset or as a debt asset.
C12_AffectedUsersExact ==
    \A a \in Assets :
        users_affected_by_asset(tracker, a) =
            {u \in Users : /\ get(tracker, u) # None
                           /\ ListsAsset(get(tracker, u), a)}

\* two tracked users, one of which owes an asset it does not supply and
\* holds nothing of the other asset, which the second user holds
C12_Witness ==
    \E u, v \in Users : \E a, b \in Assets :
        /\ u # v /\ a # b
        /\ get(tracker, u) # None /\ get(tracker, v) # None
        /\ u \in tracker.debt_holders[a]
        /\ ~ListsAsset(get(tracker, u), b)
        /\ ListsAsset(get(tracker, v), b)
        /\ users_affected_by_asset(tracker, b) = {v}

\* --------------------------------------------- trigger index, price moves
\* positions the scanner would track: built from fetched balances, not
\* empty, and not skipped as bad debt
TrackablePositions(user, prices) ==
    {p \in {FetchedPosition(user, s, b, prices) : s \in Balances, b \in Balances} :
        /\ ~(p.collaterals = <<>> /\ p.debts = <<>>)
        /\ ~is_bad_debt(p)}

RECURSIVE UpsertAll(_, _)
UpsertAll(t, positions) ==
    IF positions = <<>> THEN t
    ELSE UpsertAll(upsert(t, Head(positions)), Tail(positions))

InitTrigger ==
    /\ \E p1 \in TrackablePositions(1, FetchPrices) :
       \E others \in {<<>>} \cup
                     {<<FetchedPosition(u, OnlyAsset(1, 1), OnlyAsset(2, 1),
                                        FetchPrices)>> : u \in Users \ {1}} :
           tracker = UpsertAll(PositionTrackerNew, <<p1>> \o others)
    /\ live = {p.user : p \in SeqToSet(all_positions(tracker))}
    /\ lastQuery = None
    /\ ScannerIdle

GetLiquidatableAt(asset, new_price, old_price) ==
    /\ lastQuery' = [asset |-> asset, new_price |-> new_price,
                     old_price |-> old_price,
                     result |-> get_liquidatable_at(tracker.triggers_by_asset,
                                                    asset, new_price, old_price)]
    /\ UNCHANGED <<tracker, live, scannerVars, loopVars>>

NextTrigger ==
    \E a \in Assets, new_price \in Prices, old_price \in Prices :
        GetLiquidatableAt(a, new_price, old_price)

SpecTrigger ==
    InitTrigger /\ [][NextTrigger]_vars

\* health factor of a position when one asset is priced at `price` and
\* every other asset keeps the price of the snapshot: numerator and
\* denominator of sum(amount * price * lt) / sum(debt amount * price)
HfNumAt(p, asset, price) ==
    SumSeq(MapSeq(EnabledCollaterals(p),
        LAMBDA c : c.amount * (IF c.asset = asset THEN price ELSE c.price)
                       * c.liquidation_threshold))

HfDenAt(p, asset, price) ==
    10000 * SumSeq(MapSeq(p.debts,
        LAMBDA d : d.amount * (IF d.asset = asset THEN price ELSE d.price)))

HfAboveOneAt(p, asset, price) ==
    HfDenAt(p, asset, price) = 0 \/ HfNumAt(p, asset, price) > HfDenAt(p, asset, price)

\* the health factor goes from above 1.0 to 1.0 or below (equality at the
\* trigger price counts as crossed)
CrossesOne(p, asset, old_price, new_price) ==
    /\ HfAboveOneAt(p, asset, old_price)
    /\ ~HfAboveOneAt(p, asset, new_price)

\* C2: for any asset and any move of its price from old to new with all
\* other prices fixed, get_liquidatable_at returns exactly the tracked
\* users whose health factor crosses 1.0 under that move
C2_ExactCrossing ==
    lastQuery # None =>
        SeqToSet(lastQuery.result) =
            {u \in Users :
                /\ get(tracker, u) # None
                /\ CrossesOne(get(tracker, u), lastQuery.asset,
                              lastQuery.old_price, lastQuery.new_price)}

\* ------------------------------------------ is_triggered on its inputs
IsTriggered(direction, trigger_price, old_price, new_price) ==
    /\ lastQuery' =
           [entry |-> [user |-> 1, trigger_price |-> trigger_price,
                       direction |-> direction, current_hf |-> 110],
            old_price |-> old_price, new_price |-> new_price,
            result |-> is_triggered(
                           [user |-> 1, trigger_price |-> trigger_price,
                            direction |-> direction, current_hf |-> 110],
                           old_price, new_price)]
    /\ UNCHANGED <<tracker, live, scannerVars, loopVars>>

NextCrossing ==
    \E direction \in {"Down", "Up"}, trigger_price \in Prices,
       old_price \in Prices, new_price \in Prices :
        IsTriggered(direction, trigger_price, old_price, new_price)

SpecCrossing ==
    Init /\ [][NextCrossing]_vars

\* C16: a trigger entry is reported triggered by a move old -> new exactly
\* when it is Down with old > trigger and new <= trigger, or Up with
\* old < trigger and new >= trigger: a new price equal to the trigger
\* price counts as crossed, an old price equal to it does not.
C16_TriggeredIffCrossed ==
    lastQuery # None =>
        LET e == lastQuery.entry
            old == lastQuery.old_price
            new == lastQuery.new_price
        IN  /\ lastQuery.result <=>
                   \/ /\ e.direction = "Down"
                      /\ old > e.trigger_price
                      /\ new <= e.trigger_price
                   \/ /\ e.direction = "Up"
                      /\ old < e.trigger_price
                      /\ new >= e.trigger_price
            /\ old = e.trigger_price => ~lastQuery.result
            /\ (new = e.trigger_price /\ e.direction = "Down"
                    /\ old > e.trigger_price) => lastQuery.result
            /\ (new = e.trigger_price /\ e.direction = "Up"
                    /\ old < e.trigger_price) => lastQuery.result

\* an Up entry hit exactly: the new price equals the trigger price and the
\* entry is reported triggered
C16_Witness ==
    /\ lastQuery # None
    /\ lastQuery.entry.direction = "Up"
    /\ lastQuery.new_price = lastQuery.entry.trigger_price
    /\ lastQuery.old_price < lastQuery.entry.trigger_price
    /\ lastQuery.result

\* ------------------------------------------- a full critical buffer
\* MAX_CRITICAL_POSITIONS further users, all upserted as Critical, fill the
\* buffer; the users of the interface runs come on top of them
FillerUsers ==
    (NumUsers + 1)..(NumUsers + MAX_CRITICAL_POSITIONS)

FillerPosition(user) ==
    [FetchedPosition(user, OnlyAsset(1, 1), OnlyAsset(2, 1), FetchPrices)
         EXCEPT !.tier = "Critical"]

\* the tracker after upsert has been called for the first n filler users,
\* in order: each is appended to the buffer, entered in the holder sets of
\* its two assets, and given its two trigger entries
TrackerWithFillers(n) ==
    [PositionTrackerNew EXCEPT
        !.critical = [i \in 1..n |-> FillerPosition(NumUsers + i)],
        !.collateral_holders[1] = (NumUsers + 1)..(NumUsers + n),
        !.debt_holders[2] = (NumUsers + 1)..(NumUsers + n),
        !.triggers_by_asset[1] =
            [i \in 1..n |->
                CollateralTrigger(FillerPosition(NumUsers + i),
                                  FillerPosition(NumUsers + i).collaterals[1])],
        !.triggers_by_asset[2] =
            [i \in 1..n |->
                DebtTrigger(FillerPosition(NumUsers + i),
                            FillerPosition(NumUsers + i).debts[1])]]

InitOverflow ==
    /\ tracker = TrackerWithFillers(MAX_CRITICAL_POSITIONS)
    /\ live = FillerUsers
    /\ lastQuery = None
    /\ ScannerIdle

\* the calls made on top of the full buffer: upserts and re-tiers of the
\* further users, removals of them and of the user in the first slot
NextOverflow ==
    \/ \E u \in Users, tr \in Tiers :
           Upsert(u, OnlyAsset(1, 1), OnlyAsset(2, 1), tr)
    \/ \E u \in Users \cup {NumUsers + 1} : Remove(u)
    \/ \E u \in Users, hf \in HfInputs, d \in DistanceInputs : ReTier(u, hf, d)

SpecOverflow ==
    InitOverflow /\ [][NextOverflow]_vars

CriticalFullOfOthers(t, user) ==
    /\ Len(t.critical) = MAX_CRITICAL_POSITIONS
    /\ \A i \in 1..Len(t.critical) : t.critical[i].user # user

\* C13: the critical buffer never holds more than 64 positions and no
\* upserted user is dropped; when a call stores a Critical-classified
\* snapshot of a user while the buffer holds 64 other users, the snapshot
\* is stored in the hot tier (get returns it, get_tier returns Hot).
C13_OverflowSpillsToHot ==
    /\ [](/\ Len(tracker.critical) <= MAX_CRITICAL_POSITIONS
          /\ \A u \in live : get(tracker, u) # None)
    /\ [][\A u \in Users :
             (/\ CriticalFullOfOthers(tracker, u)
              /\ u \in live'
              /\ get(tracker', u) # None
              /\ get(tracker', u) # get(tracker, u)
              /\ get(tracker', u).tier = "Critical")
             => get_tier(tracker', u) = "Hot"]_vars

\* the buffer holds 64 users and a further user, upserted as Critical, is
\* held by the hot tier
C13_Witness ==
    /\ Len(tracker.critical) = MAX_CRITICAL_POSITIONS
    /\ \E u \in Users :
           /\ u \in live
           /\ CriticalFullOfOthers(tracker, u)
           /\ get(tracker, u) # None
           /\ get(tracker, u).tier = "Critical"
           /\ get_tier(tracker, u) = "Hot"

\* ------------------------------------------- the same upsert, twice
\* a stream delivers an event twice and the handler upserts the position
\* it fetched both times
UpsertTwice(user, supply, borrow, tier) ==
    LET p == [FetchedPosition(user, supply, borrow, FetchPrices)
                  EXCEPT !.tier = tier]
    IN  /\ tracker' = upsert(upsert(tracker, p), p)
        /\ live' = live \cup {user}
        /\ UNCHANGED <<lastQuery, loopVars, scannerVars>>

NextDuplicate ==
    \/ \E u \in Users, ca \in Assets, da \in {0} \cup Assets, tr \in Tiers :
           UpsertTwice(u, OnlyAsset(ca, 1), OnlyAsset(da, 1), tr)
    \/ \E u \in Users \cup {NumUsers + 1} : Remove(u)

SpecDuplicate ==
    InitOverflow /\ [][NextDuplicate]_vars

\* the trigger entries of the user, with the asset they are filed under
UserTriggers(t, user) ==
    UNION {{<<a, t.triggers_by_asset[a][i]>> :
               i \in {k \in 1..Len(t.triggers_by_asset[a]) :
                         t.triggers_by_asset[a][k].user = user}} :
           a \in Assets}

\* what the tracker holds about the user: tier, stored snapshot, number of
\* containers holding it, trigger entries and holder-set membership
UserView(t, user) ==
    [tier |-> get_tier(t, user),
     position |-> get(t, user),
     containers |-> ContainerCount(t, user),
     triggers |-> UserTriggers(t, user),
     collateral_of |-> {a \in Assets : user \in t.collateral_holders[a]},
     debt_of |-> {a \in Assets : user \in t.debt_holders[a]}]

\* C23: in every state of the tracker and for every position, upserting
\* the position a second time leaves the user's tier, stored snapshot,
\* trigger entries and holder-set membership, and every other user's, as
\* the first upsert left them.
C23_UpsertIdempotent ==
    \A u \in Users, ca \in Assets, da \in {0} \cup Assets, tr \in Tiers :
        LET p == [FetchedPosition(u, OnlyAsset(ca, 1), OnlyAsset(da, 1),
                                  FetchPrices) EXCEPT !.tier = tr]
        IN  \A once \in {upsert(tracker, p)} :
                \A twice \in {upsert(once, p)} :
                    \A v \in Users \cup {NumUsers + 1} :
                        UserView(twice, v) = UserView(once, v)

\* a user upserted as Critical on top of a buffer full of other users sits
\* in the hot tier with collateral in asset 2, and upserting its snapshot
\* again changes nothing in the tracker
C23_Witness ==
    \E u \in Users :
        /\ u \in live
        /\ CriticalFullOfOthers(tracker, u)
        /\ get_tier(tracker, u) = "Hot"
        /\ get(tracker, u).tier = "Critical"
        /\ u \in tracker.collateral_holders[2]
        /\ UserTriggers(tracker, u) # {}
        /\ upsert(tracker, get(tracker, u)) = tracker

\* C40: for every user the tracker holds, the tier field of the snapshot
\* get returns is the tier of the container that holds it, which is what
\* get_tier returns.
C40_TierFieldMatchesContainer ==
    \A u \in Users \cup FillerUsers :
        get(tracker, u) # None
            => get(tracker, u).tier = get_tier(tracker, u)

\* ------------------------------------- a reader next to an upsert
\* upsert takes no lock over the whole call: remove empties the buffer and
\* the three maps one after the other, and the new snapshot is inserted
\* afterwards.  get probes the same four containers in the same order.
\* Every container access is atomic (RwLock, DashMap shard lock).
Probes ==
    <<"critical", "hot", "warm", "cold">>

RemoveFrom(t, container, user) ==
    IF container = "critical"
    THEN [t EXCEPT !.critical = SelectSeq(@, LAMBDA p : p.user # user)]
    ELSE IF container = "hot" THEN [t EXCEPT !.hot = MapRemove(@, user)]
    ELSE IF container = "warm" THEN [t EXCEPT !.warm = MapRemove(@, user)]
    ELSE [t EXCEPT !.cold = MapRemove(@, user)]

ProbeOf(t, container, user) ==
    IF container = "critical"
    THEN IF get_tier(t, user) = "Critical" THEN get(t, user) ELSE None
    ELSE IF container = "hot"
    THEN IF user \in DOMAIN t.hot THEN t.hot[user] ELSE None
    ELSE IF container = "warm"
    THEN IF user \in DOMAIN t.warm THEN t.warm[user] ELSE None
    ELSE IF user \in DOMAIN t.cold THEN t.cold[user] ELSE None

InitReaders ==
    /\ \E tr \in [Users -> {"Critical", "Cold"}] :
           tracker = UpsertAll(PositionTrackerNew,
                         [u \in Users |->
                             [FetchedPosition(u, OnlyAsset(1, 1),
                                              OnlyAsset(2, 1), FetchPrices)
                                  EXCEPT !.tier = tr[u]]])
    /\ live = Users
    /\ lastQuery = None
    /\ ScannerIdle

\* a task calls upsert with a freshly built position
UpsertBegin(user, amount, tier) ==
    /\ upserting = None
    /\ upserting' = [position |->
                         [FetchedPosition(user, OnlyAsset(1, amount),
                                          OnlyAsset(2, 1), FetchPrices)
                              EXCEPT !.tier = tier],
                     step |-> 1]
    /\ UNCHANGED <<trackerVars, scannerVars, reader, sender, stream, retry>>

\* a task calls re_tier: the tier differs, the old snapshot is cloned with
\* the new health factor and tier, and upsert is called with the clone
ReTierBegin(user, new_hf, new_trigger_distance) ==
    /\ upserting = None
    /\ get_tier(tracker, user) # classify(new_hf, new_trigger_distance)
    /\ get(tracker, user) # None
    /\ upserting' = [position |->
                         [get(tracker, user) EXCEPT
                              !.health_factor = new_hf,
                              !.min_trigger_distance_pct = new_trigger_distance,
                              !.tier = classify(new_hf, new_trigger_distance)],
                     step |-> 1]
    /\ UNCHANGED <<trackerVars, scannerVars, reader, sender, stream, retry>>

\* remove empties the next container
UpsertRemoveStep ==
    /\ upserting # None
    /\ upserting.step <= Len(Probes)
    /\ tracker' = RemoveFrom(tracker, Probes[upserting.step],
                             upserting.position.user)
    /\ upserting' = [upserting EXCEPT !.step = @ + 1]
    /\ UNCHANGED <<live, lastQuery, scannerVars, reader, sender, stream,
                   retry>>

\* the rest of the call: the indices are cleared of the user, the reverse
\* indices are updated, the snapshot is inserted, the triggers are added
UpsertInsertStep ==
    /\ upserting # None
    /\ upserting.step > Len(Probes)
    /\ tracker' = upsert(tracker, upserting.position)
    /\ upserting' = None
    /\ UNCHANGED <<live, lastQuery, scannerVars, reader, sender, stream,
                   retry>>

\* another task calls get for a tracked user
GetBegin(user) ==
    /\ IF reader = None THEN TRUE ELSE reader.step > Len(Probes)
    /\ user \in live
    /\ reader' = [user |-> user, step |-> 1, result |-> None]
    /\ UNCHANGED <<trackerVars, scannerVars, upserting, sender, stream,
                   retry>>

\* get probes the next container and returns the snapshot it finds there;
\* after the cold map has been probed in vain it returns None
GetStep ==
    /\ reader # None
    /\ reader.step <= Len(Probes)
    /\ LET found == ProbeOf(tracker, Probes[reader.step], reader.user)
       IN  reader' = IF found # None
                     THEN [reader EXCEPT !.step = Len(Probes) + 1,
                                         !.result = found]
                     ELSE [reader EXCEPT !.step = @ + 1]
    /\ UNCHANGED <<trackerVars, scannerVars, upserting, sender, stream,
                   retry>>

NextReaders ==
    \/ \E u \in Users, tr \in Tiers : UpsertBegin(u, 1, tr)
    \/ \E u \in Users, hf \in {101, 120} :
           ReTierBegin(u, hf, DEFAULT_TRIGGER_DISTANCE)
    \/ UpsertRemoveStep
    \/ UpsertInsertStep
    \/ \E u \in Users : GetBegin(u)
    \/ GetStep

SpecReaders ==
    InitReaders /\ [][NextReaders]_vars

\* C14: a get call for a user that is tracked, made while another task
\* upserts or re-tiers that user, returns a snapshot of the user (the old
\* one or the new one) and never "not tracked".
C14_ReaderSeesTrackedUser ==
    (reader # None /\ reader.step > Len(Probes)) => reader.result # None

\* ------------------------------------- two upserts next to each other
\* The pool loop, the cold cycle, the bootstrap cycle and the oracle loop
\* are tasks of their own (tokio::spawn); each may be inside upsert while
\* another one is.  In this specification upserting holds the call of
\* every such task.
Writers ==
    1..NumWriters

InitWriters ==
    /\ \E tr \in [Users -> {"Critical", "Cold"}] :
           tracker = UpsertAll(PositionTrackerNew,
                         [u \in Users |->
                             [FetchedPosition(u, OnlyAsset(1, 1),
                                              OnlyAsset(2, 1), FetchPrices)
                                  EXCEPT !.tier = tr[u]]])
    /\ live = Users
    /\ lastQuery = None
    /\ staged = [u \in ScanUsers |-> None]
    /\ oracle = FetchPrices
    /\ chain = [u \in ScanUsers |-> [supply |-> OnlyAsset(0, 0),
                                     borrow |-> OnlyAsset(0, 0)]]
    /\ channel = <<>>
    /\ job = None
    /\ lastSends = <<>>
    /\ lastTx = None
    /\ SignerIdle
    /\ upserting = [w \in Writers |-> None]
    /\ reader = None
    /\ sender = <<>>
    /\ stream = [t \in StreamTasks |->
                    [pc |-> "subscribe", elapsed |-> 0, exit |-> "none",
                     handling |-> FALSE]]
    /\ retry = None

\* process_wallet of a task reaches tracker.upsert with the position built
WriterUpsertBegin(w, user, tier) ==
    /\ upserting[w] = None
    /\ upserting' = [upserting EXCEPT ![w] =
                         [position |->
                              [FetchedPosition(user, OnlyAsset(1, 1),
                                               OnlyAsset(2, 1), FetchPrices)
                                   EXCEPT !.tier = tier],
                          removed |-> FALSE]]
    /\ UNCHANGED <<trackerVars, scannerVars, reader, sender, stream, retry>>

\* the oracle handler calls re_tier: the tier differs, the old snapshot is
\* cloned with the new health factor and tier, upsert is called with it
WriterReTierBegin(w, user, new_hf, new_trigger_distance) ==
    /\ upserting[w] = None
    /\ get_tier(tracker, user) # classify(new_hf, new_trigger_distance)
    /\ get(tracker, user) # None
    /\ upserting' = [upserting EXCEPT ![w] =
                         [position |->
                              [get(tracker, user) EXCEPT
                                   !.health_factor = new_hf,
                                   !.min_trigger_distance_pct =
                                       new_trigger_distance,
                                   !.tier = classify(new_hf,
                                                     new_trigger_distance)],
                          removed |-> FALSE]]
    /\ UNCHANGED <<trackerVars, scannerVars, reader, sender, stream, retry>>

\* upsert, first half: self.remove(&user)
WriterRemove(w) ==
    /\ upserting[w] # None
    /\ ~upserting[w].removed
    /\ tracker' = remove(tracker, upserting[w].position.user)
    /\ upserting' = [upserting EXCEPT ![w].removed = TRUE]
    /\ UNCHANGED <<live, lastQuery, scannerVars, reader, sender, stream,
                   retry>>

\* upsert, second half: the reverse indices, the tier container and the
\* trigger index receive the position, and the call returns
WriterInsert(w) ==
    /\ upserting[w] # None
    /\ upserting[w].removed
    /\ LET p == upserting[w].position
           t2 == update_reverse_indices(tracker, p)
           t3 == InsertIntoTier(t2, p)
       IN  tracker' = [t3 EXCEPT !.triggers_by_asset = update_position(@, p)]
    /\ upserting' = [upserting EXCEPT ![w] = None]
    /\ UNCHANGED <<live, lastQuery, scannerVars, reader, sender, stream,
                   retry>>

NextWriters ==
    \/ \E w \in Writers, u \in Users, tr \in {"Critical", "Cold"} :
           WriterUpsertBegin(w, u, tr)
    \/ \E w \in Writers, u \in Users, hf \in {101, 120} :
           WriterReTierBegin(w, u, hf, DEFAULT_TRIGGER_DISTANCE)
    \/ \E w \in Writers : WriterRemove(w)
    \/ \E w \in Writers : WriterInsert(w)

SpecWriters ==
    InitWriters /\ [][NextWriters]_vars

\* C25: whenever no upsert or re_tier call is in progress, every user is
\* held by at most one tier container, and the Critical buffer holds at
\* most one entry for the user.
C25_OneContainerAfterConcurrentUpserts ==
    (\A w \in Writers : upserting[w] = None)
        => \A u \in Users :
               /\ ContainerCount(tracker, u) <= 1
               /\ Cardinality({i \in 1..Len(tracker.critical) :
                                  tracker.critical[i].user = u}) <= 1

\* ----------------------------------------------------- dual_oracle.rs
\* Option values of this section are sequences: <<>> is None, <<v>> is
\* Some(v).  Durations and timestamps are whole seconds.
DualOracleTiers == <<"Primary", "Secondary", "Emergency">>

next_tier(tier) ==
    IF tier = "Primary" THEN <<"Secondary">>
    ELSE IF tier = "Secondary" THEN <<"Emergency">>
    ELSE <<>>

staleness_threshold(tier) ==
    IF tier = "Primary" THEN 1800
    ELSE IF tier = "Secondary" THEN 3600
    ELSE 86400

\* Option lookup in a DashMap
MapGet(m, key) ==
    IF key \in DOMAIN m THEN <<m[key]>> ELSE <<>>

saturating_sub(a, b) ==
    IF a > b THEN a - b ELSE 0

\* is_stale with >= in place of >
get_tier_staleness_at_threshold(tier_updates, oracle_address, tier, now) ==
    IF <<oracle_address, tier>> \notin DOMAIN tier_updates THEN <<>>
    ELSE LET last_update == tier_updates[<<oracle_address, tier>>]
             threshold == staleness_threshold(tier)
             staleness_secs == saturating_sub(now, last_update)
         IN  <<[last_update |-> last_update,
                staleness |-> staleness_secs,
                staleness_pct_num |-> staleness_secs * 100,
                staleness_pct_den |-> threshold,
                is_stale |-> staleness_secs >= threshold]>>

\* staleness_pct is the f64 (staleness_secs / threshold) * 100.0, kept here
\* as the fraction staleness_pct_num / staleness_pct_den; for whole seconds
\* and these thresholds the f64 is above 80.0 exactly when the fraction is
get_tier_staleness(tier_updates, oracle_address, tier, now) ==
    IF <<oracle_address, tier>> \notin DOMAIN tier_updates THEN <<>>
    ELSE LET last_update == tier_updates[<<oracle_address, tier>>]
             threshold == staleness_threshold(tier)
             staleness_secs == saturating_sub(now, last_update)
         IN  <<[last_update |-> last_update,
                staleness |-> staleness_secs,
                staleness_pct_num |-> staleness_secs * 100,
                staleness_pct_den |-> threshold,
                is_stale |-> staleness_secs > threshold]>>

\* m is the monitor: current_tiers, tier_updates, tier_deviations
check_transition(m, oracle_address, now) ==
    IF MapGet(m.current_tiers, oracle_address) = <<>> THEN <<>>
    ELSE LET current == m.current_tiers[oracle_address]
         IN  IF next_tier(current) = <<>> THEN <<>>
             ELSE LET to_tier == next_tier(current)[1]
                      found == get_tier_staleness(m.tier_updates, oracle_address,
                                                  current, now)
                  IN  IF found = <<>> THEN <<>>
                      ELSE IF found[1].is_stale
                      THEN <<[oracle |-> oracle_address, from |-> current, to |-> to_tier,
                              expected_price_impact |->
                                  MapGet(m.tier_deviations, oracle_address),
                              time_until |-> <<>>]>>
                      ELSE IF found[1].staleness_pct_num
                                  > 80 * found[1].staleness_pct_den
                      THEN <<[oracle |-> oracle_address, from |-> current, to |-> to_tier,
                              expected_price_impact |->
                                  MapGet(m.tier_deviations, oracle_address),
                              time_until |->
                                  <<saturating_sub(
                                        staleness_threshold(current),
                                        found[1].staleness)>>]>>
                      ELSE <<>>

\* the calls checked: one oracle, known to the monitor or not, with at most
\* one recorded update (of any tier) whose age lies around the 80% marks
\* and the thresholds of the three tiers, or in the future
Now == 100000

Ages ==
    {0, 1439, 1440, 1441, 1800, 1801, 2100, 2879, 2880, 2881, 3600, 3601,
     69119, 69120, 69121, 86400, 86401}

Monitors ==
    {[current_tiers |-> ct, tier_updates |-> tu, tier_deviations |-> td] :
        ct \in {<<>>} \cup {[o \in {"oracle"} |-> DualOracleTiers[i]] :
                               i \in 1..3},
        tu \in {<<>>} \cup {[k \in {<<"oracle", DualOracleTiers[i]>>} |-> Now - age] :
                               i \in 1..3, age \in Ages \cup {-60}},
        td \in {<<>>, [o \in {"oracle"} |-> 5]}}

CheckTransition(m) ==
    /\ lastQuery' = [monitor |-> m, now |-> Now,
                     out |-> check_transition(m, "oracle", Now)]
    /\ UNCHANGED <<tracker, live, loopVars, scannerVars>>

NextOracle ==
    \E m \in Monitors : CheckTransition(m)

SpecOracle ==
    Init /\ [][NextOracle]_vars

\* the tier after this one in Primary, Secondary, Emergency
PositionOf(tier) ==
    CHOOSE i \in 1..3 : DualOracleTiers[i] = tier

\* the call was made for an oracle with a current tier and a recorded
\* update of that tier
HasStaleness(q) ==
    /\ "oracle" \in DOMAIN q.monitor.current_tiers
    /\ <<"oracle", q.monitor.current_tiers["oracle"]>>
           \in DOMAIN q.monitor.tier_updates

AgeOf(q) ==
    saturating_sub(q.now,
        q.monitor.tier_updates[<<"oracle", q.monitor.current_tiers["oracle"]>>])

\* the transition from the current tier to the one after it
IsTransition(q, time_until) ==
    /\ q.out # <<>>
    /\ PositionOf(q.monitor.current_tiers["oracle"]) < 3
    /\ q.out[1].from = q.monitor.current_tiers["oracle"]
    /\ q.out[1].to = DualOracleTiers[PositionOf(q.out[1].from) + 1]
    /\ q.out[1].time_until = time_until

\* C39 as stated: check_transition reports the transition from the current
\* tier to the next of Primary, Secondary, Emergency with no time remaining
\* when the age of the current tier's last update exceeds the tier's
\* threshold, with the remaining time when the age exceeds 80% of the
\* threshold, and reports none in every other case.
C39_TransitionIffStale ==
    lastQuery # None =>
        IF ~HasStaleness(lastQuery) THEN lastQuery.out = <<>>
        ELSE LET threshold == staleness_threshold(
                                  lastQuery.monitor.current_tiers["oracle"])
                 age == AgeOf(lastQuery)
             IN  IF age > threshold THEN IsTransition(lastQuery, <<>>)
                 ELSE IF 5 * age > 4 * threshold
                 THEN IsTransition(lastQuery, <<threshold - age>>)
                 ELSE lastQuery.out = <<>>

\* C39 for the tiers that have a next tier: as above when the current tier
\* is Primary or Secondary; when it is Emergency check_transition reports
\* none whatever the age of its last update.
C39_TransitionIffStaleWithNextTier ==
    lastQuery # None =>
        IF ~HasStaleness(lastQuery) THEN lastQuery.out = <<>>
        ELSE LET current == lastQuery.monitor.current_tiers["oracle"]
                 threshold == staleness_threshold(current)
                 age == AgeOf(lastQuery)
             IN  IF current = "Emergency" THEN lastQuery.out = <<>>
                 ELSE IF age > threshold THEN IsTransition(lastQuery, <<>>)
                 ELSE IF 5 * age > 4 * threshold
                 THEN IsTransition(lastQuery, <<threshold - age>>)
                 ELSE lastQuery.out = <<>>

\* a Secondary oracle updated 2881 s ago is reported as moving to Emergency
\* in 719 s, with the deviation recorded for it
C39_Witness ==
    /\ lastQuery # None
    /\ lastQuery.out # <<>>
    /\ lastQuery.out[1].from = "Secondary"
    /\ lastQuery.out[1].to = "Emergency"
    /\ lastQuery.out[1].time_until = <<719>>
    /\ lastQuery.out[1].expected_price_impact = <<5>>

\* ------------------------------------------------------- u256_math.rs
pct_diff_bps(old, new) ==
    IF old = 0 THEN 0
    ELSE IF new >= old THEN ((new - old) * 10000) \div old
    ELSE -(((old - new) * 10000) \div old)

\* ------------------------------------------------------- sensitivity.rs
\* A coefficient dHF/d(%price) is held as the numerator of a fraction whose
\* denominator is 100 * total_debt (so that health factors stay hundredths):
\* value * lt for a collateral, -health_factor * value for a debt.
RECURSIVE CollateralSensitivities(_, _, _)
CollateralSensitivities(p, prices, i) ==
    IF i > Len(p.collaterals) THEN [sensitivities |-> <<>>, price_snapshot |-> <<>>]
    ELSE LET c == p.collaterals[i]
             rest == CollateralSensitivities(p, prices, i + 1)
         IN  IF ~c.enabled THEN rest
             ELSE [sensitivities |->
                       <<[asset |-> c.asset,
                          coef |-> c.value_usd * (c.liquidation_threshold \div 100)]>>
                           \o rest.sensitivities,
                   price_snapshot |->
                       (IF prices[c.asset] # NoPrice
                        THEN <<[asset |-> c.asset, price |-> prices[c.asset]]>>
                        ELSE <<>>) \o rest.price_snapshot]

RECURSIVE DebtSensitivities(_, _, _, _)
DebtSensitivities(acc, p, prices, i) ==
    IF i > Len(p.debts) THEN acc
    ELSE LET d == p.debts[i]
             sensitivity == -(p.health_factor * d.value_usd)
             known == \E k \in 1..Len(acc.sensitivities) :
                          acc.sensitivities[k].asset = d.asset
         IN  DebtSensitivities(
                 IF known
                 THEN [acc EXCEPT !.sensitivities =
                          [k \in 1..Len(@) |->
                              IF @[k].asset = d.asset
                              THEN [@[k] EXCEPT !.coef = @ + sensitivity]
                              ELSE @[k]]]
                 ELSE [sensitivities |->
                           Append(acc.sensitivities,
                                  [asset |-> d.asset, coef |-> sensitivity]),
                       price_snapshot |->
                           IF prices[d.asset] # NoPrice
                           THEN Append(acc.price_snapshot,
                                       [asset |-> d.asset, price |-> prices[d.asset]])
                           ELSE acc.price_snapshot],
                 p, prices, i + 1)

compute(p, prices) ==
    IF total_debt_usd(p) <= 0
    THEN [base_hf |-> p.health_factor, sensitivities |-> <<>>,
          price_snapshot |-> <<>>, total_debt |-> 0]
    ELSE LET all == DebtSensitivities(CollateralSensitivities(p, prices, 1),
                                      p, prices, 1)
         IN  [base_hf |-> p.health_factor,
              sensitivities |-> all.sensitivities,
              price_snapshot |-> all.price_snapshot,
              total_debt |-> total_debt_usd(p)]

Lookup(entries, asset) ==
    IF \E k \in 1..Len(entries) : entries[k].asset = asset
    THEN entries[CHOOSE k \in 1..Len(entries) :
                     /\ entries[k].asset = asset
                     /\ \A j \in 1..(k - 1) : entries[j].asset # asset]
    ELSE None

\* estimate_hf_from_prices for a single (asset, new price) pair
estimate_hf_from_prices(sens, asset, new_price) ==
    LET old == Lookup(sens.price_snapshot, asset)
        coef == Lookup(sens.sensitivities, asset)
    IN  IF old = None THEN sens.base_hf
        ELSE IF old.price = 0 THEN sens.base_hf
        ELSE IF coef = None THEN sens.base_hf
        ELSE sens.base_hf
                 + (coef.coef * pct_diff_bps(old.price, new_price))
                       \div (10000 * sens.total_debt)

\* is_stale: some snapshot price that is not zero has drifted from the
\* cached price of its asset by more than the threshold
is_stale(sens, prices, threshold_bps) ==
    \E k \in 1..Len(sens.price_snapshot) :
        LET old_price == sens.price_snapshot[k].price
            current == prices[sens.price_snapshot[k].asset]
            drift_bps == pct_diff_bps(old_price, current)
        IN  /\ old_price # 0
            /\ current # NoPrice
            /\ (IF drift_bps < 0 THEN -drift_bps ELSE drift_bps) > threshold_bps

\* ----------------------------------- scanner.rs, refreshing one position
\* update_position_from_data: build, skip bad debt, attach the sensitivity
\* of critical and hot positions, upsert
update_position_from_data(t, user, supplies, borrows) ==
    LET p == BuildPosition(user, supplies, borrows)
    IN  IF is_bad_debt(p) THEN t
        ELSE IF p.tier \in {"Critical", "Hot"}
        THEN upsert(t, [p EXCEPT !.sensitivity = compute(p, t.prices)])
        ELSE upsert(t, p)

\* process_wallet after the fetch has returned
process_wallet(t, user, supplies, borrows) ==
    IF supplies = <<>> /\ borrows = <<>> THEN remove(t, user)
    ELSE update_position_from_data(t, user, supplies, borrows)

\* ------------------------------------------------------ pre_staging.rs
is_valid(st) ==
    ~st.expired

get_valid_staged(stg, user) ==
    IF stg[user] # None /\ is_valid(stg[user]) THEN stg[user] ELSE None

has_valid_staged(stg, user) ==
    stg[user] # None /\ is_valid(stg[user])

invalidate(stg, user) ==
    [stg EXCEPT ![user] = None]

invalidate_by_asset(stg, asset, affected_users) ==
    [u \in DOMAIN stg |->
        IF /\ u \in affected_users
           /\ stg[u] # None
           /\ (stg[u].collateral_asset = asset \/ stg[u].debt_asset = asset)
        THEN None ELSE stg[u]]

should_stage_ignoring_bad_debt(p) ==
    /\ p.health_factor <= staging_hf_threshold
    /\ total_debt_usd(p) * 10000 >= min_debt_usd_to_stage_e4

should_stage(p) ==
    /\ p.health_factor <= staging_hf_threshold
    /\ ~is_bad_debt(p)
    /\ total_debt_usd(p) * 10000 >= min_debt_usd_to_stage_e4

\* stage / stage_with_calldata: the entry inserted for the position; the
\* last two fields are history (what the snapshot was when it was staged)
StagedEntry(p, swap_route, debt_to_cover, price_snapshot) ==
    [user |-> p.user,
     collateral_asset |-> largest_collateral(p).asset,
     debt_asset |-> largest_debt(p).asset,
     debt_to_cover |-> debt_to_cover,
     swap_route |-> swap_route,
     price_snapshot |-> price_snapshot,
     position_hash |-> compute_state_hash(p),
     expired |-> FALSE,
     from_pre_event |-> p.pre_event,
     bad_debt_when_staged |-> is_bad_debt(p)]

price_deviation_exceeds_bps(old_price, new_price, threshold_bps) ==
    IF old_price = 0 THEN TRUE
    ELSE LET diff == IF new_price > old_price THEN new_price - old_price
                     ELSE old_price - new_price
         IN  (diff * 10000) \div old_price > threshold_bps

is_price_stale(st, prices) ==
    \E k \in 1..Len(st.price_snapshot) :
        /\ prices[st.price_snapshot[k].asset] # NoPrice
        /\ price_deviation_exceeds_bps(st.price_snapshot[k].price,
                                       prices[st.price_snapshot[k].asset],
                                       price_deviation_threshold_bps)

is_position_changed(st, current_hash) ==
    st.position_hash # current_hash

\* validate_staged: the first failing check names the result
validate_position_first(stg, user, current_position, current_prices) ==
    IF stg[user] = None THEN [kind |-> "NotStaged", staged |-> None]
    ELSE IF is_position_changed(stg[user],
                                compute_state_hash(current_position))
    THEN [kind |-> "PositionChanged", staged |-> None]
    ELSE IF ~is_valid(stg[user]) THEN [kind |-> "Expired", staged |-> None]
    ELSE IF is_price_stale(stg[user], current_prices)
    THEN [kind |-> "PriceStale", staged |-> None]
    ELSE [kind |-> "Valid", staged |-> stg[user]]

validate_staged(stg, user, current_position, current_prices) ==
    IF stg[user] = None THEN [kind |-> "NotStaged", staged |-> None]
    ELSE IF ~is_valid(stg[user]) THEN [kind |-> "Expired", staged |-> None]
    ELSE IF is_position_changed(stg[user],
                                compute_state_hash(current_position))
    THEN [kind |-> "PositionChanged", staged |-> None]
    ELSE IF is_price_stale(stg[user], current_prices)
    THEN [kind |-> "PriceStale", staged |-> None]
    ELSE [kind |-> "Valid", staged |-> stg[user]]

\* ---------------------------------------- validate_staged on its inputs
\* prices around a snapshot price of 200: 201 is 50 bps away, 202 is 100
ValidatePrices ==
    {NoPrice, 200, 201, 202}

ValidatePosition(amount) ==
    FetchedPosition(1, OnlyAsset(1, amount), OnlyAsset(2, 1), FetchPrices)

ValidateSnapshots ==
    {<<>>, <<[asset |-> 1, price |-> 0]>>, <<[asset |-> 1, price |-> 200]>>,
     <<[asset |-> 1, price |-> 200], [asset |-> 2, price |-> 200]>>}

StagedInputs ==
    {None} \cup
    {[StagedEntry(ValidatePosition(amount),
                  [expected_input_usd |-> NoUsd, expected_output_usd |-> NoUsd,
                   expected_output |-> 0],
                  1, snapshot) EXCEPT !.expired = expired] :
        amount \in 1..MaxAmount, snapshot \in ValidateSnapshots,
        expired \in BOOLEAN}

InitValidate ==
    /\ tracker = PositionTrackerNew
    /\ live = {}
    /\ lastQuery = None
    /\ staged \in [ScanUsers -> StagedInputs]
    /\ oracle = FetchPrices
    /\ chain = [u \in ScanUsers |-> [supply |-> OnlyAsset(0, 0),
                                     borrow |-> OnlyAsset(0, 0)]]
    /\ channel = <<>>
    /\ job = None
    /\ lastSends = <<>>
    /\ lastTx = None
    /\ SignerIdle
    /\ LoopsIdle

ValidateStaged(user, current_position, current_prices) ==
    /\ lastQuery' = [user |-> user, position |-> current_position,
                     prices |-> current_prices,
                     result |-> validate_staged(staged, user, current_position,
                                                current_prices)]
    /\ UNCHANGED <<tracker, live, scannerVars, loopVars>>

NextValidate ==
    \E u \in ScanUsers, amount \in 1..MaxAmount,
       prices \in [Assets -> ValidatePrices] :
        ValidateStaged(u, ValidatePosition(amount), prices)

SpecValidate ==
    InitValidate /\ [][NextValidate]_vars

\* a snapshot price whose current price is known is off by more than the
\* threshold: |new - old| * 10000 / old > threshold_bps, a zero snapshot
\* price counting as off
SnapshotDeviates(st, prices) ==
    \E k \in 1..Len(st.price_snapshot) :
        LET old == st.price_snapshot[k].price
            new == prices[st.price_snapshot[k].asset]
        IN  /\ new # NoPrice
            /\ \/ old = 0
               \/ old # 0 /\ (IF new > old THEN new - old ELSE old - new)
                                 * 10000 >= (price_deviation_threshold_bps + 1) * old

\* C15: validate_staged returns Valid, with the entry, only when an entry
\* exists, has not expired, carries the state hash of the position passed
\* in, and no snapshot price deviates beyond the threshold; otherwise it
\* returns the first failing check in the order NotStaged, Expired,
\* PositionChanged, PriceStale.
C15_ValidateStagedOrder ==
    lastQuery # None =>
        LET st == staged[lastQuery.user]
            r == lastQuery.result
        IN  /\ r.kind = "NotStaged" <=> st = None
            /\ st # None =>
                /\ r.kind = "Expired" <=> st.expired
                /\ r.kind = "PositionChanged" <=>
                       /\ ~st.expired
                       /\ st.position_hash
                              # compute_state_hash(lastQuery.position)
                /\ r.kind = "PriceStale" <=>
                       /\ ~st.expired
                       /\ st.position_hash
                              = compute_state_hash(lastQuery.position)
                       /\ SnapshotDeviates(st, lastQuery.prices)
                /\ r.kind = "Valid" <=>
                       /\ ~st.expired
                       /\ st.position_hash
                              = compute_state_hash(lastQuery.position)
                       /\ ~SnapshotDeviates(st, lastQuery.prices)
                /\ r.kind = "Valid" => r.staged = st

\* an expired entry whose position has also changed and whose snapshot
\* price has also drifted was validated: the result is Expired
C15_Witness ==
    /\ lastQuery # None
    /\ staged[lastQuery.user] # None
    /\ staged[lastQuery.user].expired
    /\ staged[lastQuery.user].position_hash
           # compute_state_hash(lastQuery.position)
    /\ SnapshotDeviates(staged[lastQuery.user], lastQuery.prices)
    /\ lastQuery.result.kind = "Expired"

\* ------------------------------------------------------- liquidator.rs
liquidation_bonus_bps(asset) ==
    500

estimate_profit(collateral_asset, collateral_value_usd, swap_input_usd, swap_output_usd) ==
    LET gross_profit == (collateral_value_usd
                            * liquidation_bonus_bps(collateral_asset)) \div 10000
        slippage_cost == IF swap_input_usd - swap_output_usd > 0
                         THEN swap_input_usd - swap_output_usd ELSE 0
    IN  gross_profit - ESTIMATED_GAS_COST_USD - slippage_cost

always_profitable(net_profit, min_profit) ==
    TRUE

is_profitable(net_profit, min_profit) ==
    net_profit >= min_profit

estimate_staged_profit(st) ==
    LET collateral_value_usd == IF st.swap_route.expected_input_usd = NoUsd
                                THEN 0 ELSE st.swap_route.expected_input_usd
        swap_output_usd == IF st.swap_route.expected_output_usd = NoUsd
                           THEN 0 ELSE st.swap_route.expected_output_usd
    IN  estimate_profit(st.collateral_asset, collateral_value_usd,
                        collateral_value_usd, swap_output_usd)

estimate_position_profit(p) ==
    LET collateral_value == (largest_collateral(p).value_usd * 1000
                                * CLOSE_FACTOR_PCT) \div 100
    IN  estimate_profit(largest_collateral(p).asset, collateral_value,
                        collateral_value, (collateral_value * 99) \div 100)

\* execute_staged: Err before any transaction when the estimate is below
\* the minimum; otherwise the liquidation transaction goes out
execute_staged(st, tx_ok) ==
    LET net == estimate_staged_profit(st)
    IN  IF ~is_profitable(net, min_profit_usd)
        THEN [ok |-> FALSE, submitted |-> FALSE, net_profit |-> net,
              path |-> "staged", debt_to_cover |-> st.debt_to_cover,
              expected_output |-> st.swap_route.expected_output]
        ELSE [ok |-> tx_ok, submitted |-> TRUE, net_profit |-> net,
              path |-> "staged", debt_to_cover |-> st.debt_to_cover,
              expected_output |-> st.swap_route.expected_output]

\* calculate_debt_to_cover; MAX_AMOUNT stands for 2^256 - 1, an amount no
\* balance of the model reaches
calculate_debt_to_cover(swap_route, max_debt) ==
    IF swap_route.expected_output >= max_debt
    THEN MAX_AMOUNT
    ELSE swap_route.expected_output

\* build_and_execute with the swap route the router returned
build_and_execute(p, swap_route, tx_ok) ==
    LET refused == [ok |-> FALSE, submitted |-> FALSE, net_profit |-> 0,
                    path |-> "fresh", debt_to_cover |-> 0,
                    expected_output |-> swap_route.expected_output]
        collateral_value_usd == (largest_collateral(p).value_usd * 1000
                                    * CLOSE_FACTOR_PCT) \div 100
        swap_output_usd == IF swap_route.expected_output_usd = NoUsd
                           THEN (collateral_value_usd * 99) \div 100
                           ELSE swap_route.expected_output_usd
        net == estimate_profit(largest_collateral(p).asset,
                               collateral_value_usd, collateral_value_usd,
                               swap_output_usd)
    IN  IF ~is_liquidatable(p) THEN refused
        ELSE IF is_bad_debt(p) THEN refused
        ELSE IF largest_collateral(p) = None \/ largest_debt(p) = None
        THEN refused
        ELSE IF 2 * estimate_position_profit(p) < min_profit_usd THEN refused
        ELSE IF ~is_profitable(net, min_profit_usd)
        THEN [refused EXCEPT !.net_profit = net]
        ELSE [ok |-> tx_ok, submitted |-> TRUE, net_profit |-> net,
              path |-> "fresh",
              debt_to_cover |->
                  calculate_debt_to_cover(swap_route, largest_debt(p).amount),
              expected_output |-> swap_route.expected_output]

\* ---------------------------------------- scanner.rs, execute_liquidation
\* returns the tracker afterwards and what was submitted
execute_liquidation(t, stg, user, swap_route, tx_ok) ==
    LET st == get_valid_staged(stg, user)
        position == get(t, user)
        r == IF st # None THEN execute_staged(st, tx_ok)
             ELSE IF position # None
             THEN build_and_execute(position, swap_route, tx_ok)
             ELSE [ok |-> TRUE, submitted |-> FALSE, net_profit |-> 0,
                   path |-> "none", debt_to_cover |-> 0,
                   expected_output |-> 0]
    IN  [tracker |-> IF r.ok THEN remove(t, user) ELSE t,
         tx |-> IF r.submitted
                THEN [user |-> user, path |-> r.path,
                      net_profit |-> r.net_profit, confirmed |-> r.ok,
                      debt_to_cover |-> r.debt_to_cover,
                      expected_output |-> r.expected_output,
                      debt_amount |->
                          IF position = None THEN 0
                          ELSE IF largest_debt(position) = None THEN 0
                          ELSE largest_debt(position).amount,
                      tracked_bad_debt |->
                          position # None /\ is_bad_debt(position)]
                ELSE None]

\* ---------------------------------------- scanner.rs, on_oracle_update
\* first loop: users returned by the trigger index, in the order returned;
\* each send records whether the tracked position is bad debt at that moment
RECURSIVE TriggerSends(_, _)
TriggerSends(t, users) ==
    IF users = <<>> THEN <<>>
    ELSE LET position == get(t, Head(users))
         IN  (IF position # None /\ ~is_bad_debt(position)
              THEN <<[user |-> Head(users),
                      bad_debt |-> is_bad_debt(get(t, Head(users)))]>>
              ELSE <<>>) \o TriggerSends(t, Tail(users))

SentAfterEstimate(position, new_hf) ==
    new_hf < 100 /\ ~is_bad_debt(position)

\* second loop: every affected user with a sensitivity is re-estimated,
\* re-tiered when the tier changes, and sent when the estimate is below 1.0
RECURSIVE EstimateLoop(_, _, _, _)
EstimateLoop(acc, users, asset, price) ==
    IF users = {} THEN acc
    ELSE LET user == CHOOSE x \in users : \A y \in users : x <= y
             position == get(acc.tracker, user)
         IN  IF position = None \/ position.sensitivity = None
             THEN EstimateLoop(acc, users \ {user}, asset, price)
             ELSE LET new_hf == estimate_hf_from_prices(position.sensitivity,
                                                        asset, price)
                      new_tier == from_health_factor(new_hf)
                      t1 == IF new_tier # position.tier
                            THEN re_tier(acc.tracker, user, new_hf,
                                         position.min_trigger_distance_pct)
                            ELSE acc.tracker
                  IN  EstimateLoop(
                          [tracker |-> t1,
                           sends |-> acc.sends \o
                               (IF SentAfterEstimate(position, new_hf)
                                THEN <<[user |-> user,
                                        bad_debt |-> is_bad_debt(get(t1, user))]>>
                                ELSE <<>>)],
                          users \ {user}, asset, price)

\* on_oracle_update from the trigger query on: t1 is the tracker with the
\* price cache already written
after_price_write(t1, stg, asset, price, old_price) ==
    LET liquidatable == get_liquidatable_at(t1.triggers_by_asset, asset,
                                            price, old_price)
        affected == users_affected_by_asset(t1, asset)
        done == EstimateLoop([tracker |-> t1,
                              sends |-> TriggerSends(t1, liquidatable)],
                             affected, asset, price)
    IN  [tracker |-> done.tracker,
         sends |-> done.sends,
         staged |-> invalidate_by_asset(stg, asset, affected)]

old_price_of(t, asset) ==
    IF get_price(t, asset) = NoPrice THEN 0 ELSE get_price(t, asset)

on_oracle_update(t, stg, asset, price) ==
    after_price_write(update_price(t, asset, price), stg, asset, price,
                      old_price_of(t, asset))

\* ------------------------------------------------------ scanner actions
ScanPrices(a) ==
    IF a = 1 THEN {0, 2, 5} ELSE {3}

Fetched(user) ==
    [supplies |-> BalanceEntries(chain[user].supply, oracle, 1),
     borrows |-> BalanceEntries(chain[user].borrow, oracle, 1)]

\* ghost: the snapshots of the user that exist when a pool event has been
\* handled are marked as predating it
MarkPreEvent(t, user) ==
    LET mark(p) == IF p.user = user THEN [p EXCEPT !.pre_event = TRUE] ELSE p
    IN  [t EXCEPT !.critical = [i \in 1..Len(@) |-> mark(@[i])],
                  !.hot = [u \in DOMAIN @ |-> mark(@[u])],
                  !.warm = [u \in DOMAIN @ |-> mark(@[u])],
                  !.cold = [u \in DOMAIN @ |-> mark(@[u])]]

\* environment: supply, borrow, repay or withdraw by the user on the pool
ChainActivity(user, supply_amount, borrow_amount) ==
    /\ chain' = [chain EXCEPT ![user] =
                    [supply |-> OnlyAsset(1, supply_amount),
                     borrow |-> OnlyAsset(2, borrow_amount)]]
    /\ chain' # chain
    /\ lastSends' = <<>>
    /\ lastTx' = None
    /\ UNCHANGED <<trackerVars, loopVars, staged, oracle, channel, job, signerVars>>

\* the oracle reports a new price and the oracle loop handles the update
OnOracleUpdate(asset, price) ==
    LET r == on_oracle_update(tracker, staged, asset, price)
    IN  /\ Len(channel) + Len(r.sends) <= MaxQueue
        /\ oracle' = [oracle EXCEPT ![asset] = price]
        /\ tracker' = r.tracker
        /\ staged' = r.staged
        /\ channel' = channel \o MapSeq(r.sends, LAMBDA m : m.user)
        /\ lastSends' = r.sends
        /\ lastTx' = None
        /\ UNCHANGED <<live, lastQuery, loopVars, chain, job, signerVars>>

\* the pool loop handles an event of the user: process_wallet on the
\* fetched balances (empty when both reader calls failed), then invalidate
OnPoolEvent(user, fetch_ok) ==
    LET f == IF fetch_ok THEN Fetched(user)
             ELSE [supplies |-> <<>>, borrows |-> <<>>]
        t1 == process_wallet(tracker, user, f.supplies, f.borrows)
        replaced == /\ ~(f.supplies = <<>> /\ f.borrows = <<>>)
                    /\ ~is_bad_debt(BuildPosition(user, f.supplies, f.borrows))
    IN  /\ tracker' = IF replaced THEN t1 ELSE MarkPreEvent(t1, user)
        /\ staged' = invalidate(staged, user)
        /\ job' = IF job # None /\ job.position.user = user
                  THEN [job EXCEPT !.position.pre_event = TRUE] ELSE job
        /\ lastSends' = <<>>
        /\ lastTx' = None
        /\ UNCHANGED <<live, lastQuery, loopVars, oracle, chain, channel, signerVars>>

\* cold_cycle: process_wallet for a cold position that is due
ColdCycle(user) ==
    LET f == Fetched(user)
    IN  /\ user \in DOMAIN tracker.cold
        /\ tracker' = process_wallet(tracker, user, f.supplies, f.borrows)
        /\ lastSends' = <<>>
        /\ lastTx' = None
        /\ UNCHANGED <<live, lastQuery, loopVars, staged, oracle, chain, channel,
                       job, signerVars>>

\* bootstrap, steps 1 to 3: the wallets reported at risk are fetched in a
\* batch, every result is applied, the trigger index is rebuilt
RECURSIVE ApplyBatch(_, _)
ApplyBatch(t, users) ==
    IF users = {} THEN t
    ELSE LET user == CHOOSE x \in users : \A y \in users : x <= y
             f == Fetched(user)
         IN  ApplyBatch(
                 IF f.supplies = <<>> /\ f.borrows = <<>> THEN remove(t, user)
                 ELSE update_position_from_data(t, user, f.supplies, f.borrows),
                 users \ {user})

BootstrapSync(wallets) ==
    /\ tracker' = rebuild_trigger_index(ApplyBatch(tracker, wallets))
    /\ lastSends' = <<>>
    /\ lastTx' = None
    /\ UNCHANGED <<live, lastQuery, loopVars, staged, oracle, chain, channel, job,
                   signerVars>>

\* stage_position up to the swap-route request: called by critical_cycle
\* for critical positions without a valid staged entry, and by bootstrap
\* for every critical position
StageBegin(user, caller) ==
    LET position == get(tracker, user)
    IN  /\ job = None
        /\ get_tier(tracker, user) = "Critical"
        /\ caller = "critical_cycle" => ~has_valid_staged(staged, user)
        /\ should_stage(position)
        /\ largest_collateral(position) # None
        /\ largest_debt(position) # None
        /\ job' = [position |-> position]
        /\ lastSends' = <<>>
        /\ lastTx' = None
        /\ UNCHANGED <<trackerVars, loopVars, staged, oracle, chain, channel,
                       signerVars>>

\* swap routes the router may answer with for half of the collateral: no
\* slippage, ten percent slippage, or no USD figures (also the direct
\* fallback route built when the router fails, whose expected output is
\* the amount that goes in)
SwapRoutes(p) ==
    LET half == (largest_collateral(p).value_usd * 1000) \div 2
        amount_in == largest_collateral(p).amount \div 2
    IN  {[expected_input_usd |-> half, expected_output_usd |-> half,
          expected_output |-> amount_in],
         [expected_input_usd |-> half,
          expected_output_usd |-> half - half \div 10,
          expected_output |-> amount_in],
         [expected_input_usd |-> NoUsd, expected_output_usd |-> NoUsd,
          expected_output |-> amount_in]}

StagePriceSnapshot(t, p) ==
    (IF get_price(t, largest_collateral(p).asset) # NoPrice
     THEN <<[asset |-> largest_collateral(p).asset,
             price |-> get_price(t, largest_collateral(p).asset)]>>
     ELSE <<>>)
    \o (IF get_price(t, largest_debt(p).asset) # NoPrice
        THEN <<[asset |-> largest_debt(p).asset,
                price |-> get_price(t, largest_debt(p).asset)]>>
        ELSE <<>>)

\* stage_position after the route has arrived: snapshot the cached prices
\* and insert the entry (stage_with_calldata, or stage when the calldata
\* cannot be encoded: the two entries differ only in the calldata fields)
StageFinish(swap_route) ==
    /\ job # None
    /\ swap_route \in SwapRoutes(job.position)
    /\ staged' = [staged EXCEPT ![job.position.user] =
                      StagedEntry(job.position, swap_route,
                                  largest_debt(job.position).amount,
                                  StagePriceSnapshot(tracker, job.position))]
    /\ job' = None
    /\ lastSends' = <<>>
    /\ lastTx' = None
    /\ UNCHANGED <<trackerVars, loopVars, oracle, chain, channel, signerVars>>

\* the clock passes valid_until of a staged entry
TtlElapses(user) ==
    /\ staged[user] # None
    /\ ~staged[user].expired
    /\ staged' = [staged EXCEPT ![user].expired = TRUE]
    /\ lastSends' = <<>>
    /\ lastTx' = None
    /\ UNCHANGED <<trackerVars, loopVars, oracle, chain, channel, job, signerVars>>

FreshRoutes(user) ==
    IF get(tracker, user) # None /\ largest_collateral(get(tracker, user)) # None
    THEN SwapRoutes(get(tracker, user))
    ELSE {[expected_input_usd |-> NoUsd, expected_output_usd |-> NoUsd,
           expected_output |-> 0]}

\* the dispatch consumer takes the next user off the channel and runs
\* execute_liquidation
Dispatch(swap_route, tx_ok) ==
    /\ channel # <<>>
    /\ swap_route \in FreshRoutes(Head(channel))
    /\ LET r == execute_liquidation(tracker, staged, Head(channel),
                                    swap_route, tx_ok)
       IN  /\ tracker' = r.tracker
           /\ lastTx' = r.tx
    /\ channel' = Tail(channel)
    /\ lastSends' = <<>>
    /\ UNCHANGED <<live, lastQuery, loopVars, staged, oracle, chain, job, signerVars>>

\* bootstrap, step 6: a critical position that is liquidatable and not bad
\* debt is executed by the bootstrap task itself
BootstrapExecute(user, swap_route, tx_ok) ==
    /\ get_tier(tracker, user) = "Critical"
    /\ is_liquidatable(get(tracker, user))
    /\ ~is_bad_debt(get(tracker, user))
    /\ swap_route \in FreshRoutes(user)
    /\ LET r == execute_liquidation(tracker, staged, user, swap_route, tx_ok)
       IN  /\ tracker' = r.tracker
           /\ lastTx' = r.tx
    /\ lastSends' = <<>>
    /\ UNCHANGED <<live, lastQuery, loopVars, staged, oracle, chain, channel, job,
                   signerVars>>

InitScanner ==
    /\ tracker = PositionTrackerNew
    /\ live = {}
    /\ lastQuery = None
    /\ staged = [u \in ScanUsers |-> None]
    /\ oracle = [a \in Assets |-> IF a = 1 THEN 5 ELSE 3]
    /\ chain = [u \in ScanUsers |-> [supply |-> OnlyAsset(0, 0),
                                     borrow |-> OnlyAsset(0, 0)]]
    /\ channel = <<>>
    /\ job = None
    /\ lastSends = <<>>
    /\ lastTx = None
    /\ SignerIdle
    /\ LoopsIdle

NextScanner ==
    \/ \E u \in ScanUsers, sa \in 0..MaxScanAmount, ba \in 0..MaxScanAmount :
           ChainActivity(u, sa, ba)
    \/ \E a \in Assets : \E price \in ScanPrices(a) : OnOracleUpdate(a, price)
    \/ \E u \in ScanUsers, ok \in BOOLEAN : OnPoolEvent(u, ok)
    \/ \E u \in ScanUsers : ColdCycle(u)
    \/ \E w \in SUBSET ScanUsers \ {{}} : BootstrapSync(w)
    \/ \E u \in ScanUsers, caller \in {"critical_cycle", "bootstrap"} :
           StageBegin(u, caller)
    \/ \E route \in IF job = None THEN {} ELSE SwapRoutes(job.position) :
           StageFinish(route)
    \/ \E u \in ScanUsers : TtlElapses(u)
    \/ \E ok \in BOOLEAN :
       \E route \in IF channel = <<>> THEN {} ELSE FreshRoutes(Head(channel)) :
           Dispatch(route, ok)
    \/ \E u \in ScanUsers, ok \in BOOLEAN :
       \E route \in FreshRoutes(u) : BootstrapExecute(u, route, ok)

SpecScanner ==
    InitScanner /\ [][NextScanner]_vars

\* ------------------------------------------------ signer.rs, NonceManager
next(current) ==
    [value |-> current, current |-> current + 1]

sync(current, chain_nonce) ==
    IF chain_nonce > current THEN chain_nonce ELSE current

reset(current, chain_nonce) ==
    chain_nonce

\* provider.get_transaction_count: the transactions of the account mined
get_transaction_count ==
    Len(ledger)

\* ------------------------------- the tasks that execute liquidations
\* Scanner::run spawns bootstrap_cycle and then drains the channel itself:
\* the consumer calls execute_liquidation for every user it receives, and
\* bootstrap (step 6) calls it for every critical position it finds
\* liquidatable.  Each call checks the profit, sends the liquidation
\* transaction, waits for its receipt, then sends the rescue transaction.

\* an event handler sends a user on the channel
Enqueue(user) ==
    /\ Len(channel) < MaxQueue
    /\ channel' = Append(channel, user)
    /\ UNCHANGED <<trackerVars, loopVars, staged, oracle, chain, job, lastSends,
                   lastTx, signerVars>>

ExecuteBegin(t) ==
    /\ task[t].pc = "idle"
    /\ IF t = "consumer"
       THEN channel # <<>> /\ channel' = Tail(channel)
       ELSE UNCHANGED channel
    /\ task' = [task EXCEPT ![t] = [pc |-> "check", phase |-> "liquidation",
                                    nonce |-> 0]]
    /\ UNCHANGED <<trackerVars, loopVars, staged, oracle, chain, job, lastSends,
                   lastTx, nonce_current, ledger, mempool, submissions>>

\* the profit gate (or an earlier check) ends the call with an error
ExecuteRefused(t) ==
    /\ task[t].pc = "check"
    /\ task' = [task EXCEPT ![t] = [pc |-> "idle", phase |-> "none",
                                    nonce |-> 0]]
    /\ UNCHANGED <<trackerVars, loopVars, scanVars, nonce_current,
                   ledger, mempool, submissions>>

\* send_transaction, first step: the nonce is taken from the manager
SendTransaction(t) ==
    /\ task[t].pc \in {"check", "rescue"}
    /\ nonce_current < MaxNonce
    /\ nonce_current' = next(nonce_current).current
    /\ task' = [task EXCEPT ![t].pc = "submit",
                            ![t].nonce = next(nonce_current).value]
    /\ UNCHANGED <<trackerVars, loopVars, scanVars, ledger, mempool,
                   submissions>>

\* what the node can answer to a submission with this nonce: it refuses a
\* nonce already mined or already pending
SubmitOutcomes(nonce) ==
    {"gas_error", "submit_error"}
        \cup (IF nonce >= get_transaction_count /\ nonce \notin mempool
              THEN {"accepted"} ELSE {})

\* send_transaction, gas parameters and submission: an error ends the call
\* and leaves the nonce manager as it is
Submit(t, outcome) ==
    /\ task[t].pc = "submit"
    /\ outcome \in SubmitOutcomes(task[t].nonce)
    /\ IF outcome = "accepted"
       THEN /\ mempool' = mempool \cup {task[t].nonce}
            /\ submissions' = Append(submissions,
                                     [nonce |-> task[t].nonce, by |-> t])
            /\ task' = [task EXCEPT ![t].pc = "receipt"]
       ELSE /\ task' = [task EXCEPT ![t] = [pc |-> "idle", phase |-> "none",
                                            nonce |-> 0]]
            /\ UNCHANGED <<mempool, submissions>>
    /\ UNCHANGED <<trackerVars, loopVars, scanVars, nonce_current,
                   ledger>>

\* environment: the pending transaction with the account's next nonce is
\* mined, successfully or reverted
Mine(status) ==
    /\ get_transaction_count \in mempool
    /\ mempool' = mempool \ {get_transaction_count}
    /\ ledger' = Append(ledger, status)
    /\ UNCHANGED <<trackerVars, loopVars, scanVars, nonce_current,
                   submissions, task>>

\* send_transaction, the receipt has arrived: success returns the hash (the
\* rescue transaction follows a liquidation), a revert goes to sync_nonce
Receipt(t) ==
    /\ task[t].pc = "receipt"
    /\ task[t].nonce < get_transaction_count
    /\ task' = [task EXCEPT ![t] =
                    IF ledger[task[t].nonce + 1] = "reverted"
                    THEN [@ EXCEPT !.pc = "sync"]
                    ELSE IF @.phase = "liquidation"
                    THEN [@ EXCEPT !.pc = "rescue", !.phase = "rescue"]
                    ELSE [pc |-> "idle", phase |-> "none", nonce |-> 0]]
    /\ UNCHANGED <<trackerVars, loopVars, scanVars, nonce_current,
                   ledger, mempool, submissions>>

\* sync_nonce after a revert: the manager is reset to the transaction
\* count of the account, unless the RPC call fails; the call then bails
SyncNonce(t, rpc_ok) ==
    /\ task[t].pc = "sync"
    /\ nonce_current' = IF rpc_ok
                        THEN reset(nonce_current, get_transaction_count)
                        ELSE nonce_current
    /\ task' = [task EXCEPT ![t] = [pc |-> "idle", phase |-> "none",
                                    nonce |-> 0]]
    /\ UNCHANGED <<trackerVars, loopVars, scanVars, ledger, mempool,
                   submissions>>

InitSigner ==
    /\ tracker = PositionTrackerNew
    /\ live = {}
    /\ lastQuery = None
    /\ ScannerIdle

NextSigner ==
    \/ \E u \in ScanUsers : Enqueue(u)
    \/ \E t \in Tasks : ExecuteBegin(t)
    \/ \E t \in Tasks : ExecuteRefused(t)
    \/ \E t \in Tasks : SendTransaction(t)
    \/ \E t \in Tasks, outcome \in {"gas_error", "submit_error", "accepted"} :
           Submit(t, outcome)
    \/ \E status \in {"success", "reverted"} : Mine(status)
    \/ \E t \in Tasks : Receipt(t)
    \/ \E t \in Tasks, rpc_ok \in BOOLEAN : SyncNonce(t, rpc_ok)

SpecSigner ==
    InitSigner /\ [][NextSigner]_vars

\* C5: of any two submissions of the signer, the later one carries the
\* strictly greater nonce.
C5_NonceMonotone ==
    \A i, j \in 1..Len(submissions) :
        i < j => submissions[i].nonce < submissions[j].nonce

\* C6: at most one liquidation execution is in progress at any time, and
\* every transaction is submitted by the dispatch consumer.
C6_SingleExecution ==
    /\ Cardinality({t \in Tasks : task[t].pc # "idle"}) <= 1
    /\ \A k \in 1..Len(submissions) : submissions[k].by = "consumer"

\* ------------------------------- the liquidation channel at capacity
\* a sender that does not wait: with no free slot the value is discarded
try_send(ch, user) ==
    IF Len(ch) < LIQUIDATION_CHANNEL_CAPACITY
    THEN [completed |-> TRUE, channel |-> Append(ch, user)]
    ELSE [completed |-> TRUE, channel |-> ch]

\* mpsc::Sender::send: the value is placed on the channel when a slot is
\* free; with no free slot the call does not complete
send(ch, user) ==
    IF Len(ch) < LIQUIDATION_CHANNEL_CAPACITY
    THEN [completed |-> TRUE, channel |-> Append(ch, user)]
    ELSE [completed |-> FALSE, channel |-> ch]

\* on_oracle_update has worked out the users it sends, in order (a user
\* can be sent by the trigger loop and again by the estimate loop)
HandlerBegin(users) ==
    /\ sender = <<>>
    /\ sender' = [k \in 1..Len(users) |-> [user |-> users[k],
                                            waited |-> FALSE]]
    /\ lastSends' = <<>>
    /\ UNCHANGED <<trackerVars, staged, oracle, chain, channel, job, lastTx,
                   signerVars, upserting, reader, stream, retry>>

\* liq_tx.send(user).await finds the channel full: the handler is suspended
HandlerSuspend ==
    /\ sender # <<>>
    /\ ~send(channel, Head(sender).user).completed
    /\ ~Head(sender).waited
    /\ sender' = [sender EXCEPT ![1].waited = TRUE]
    /\ UNCHANGED <<trackerVars, scanVars, signerVars, upserting, reader,
                   stream, retry>>

\* liq_tx.send(user).await completes
HandlerSend ==
    /\ sender # <<>>
    /\ send(channel, Head(sender).user).completed
    /\ channel' = send(channel, Head(sender).user).channel
    /\ lastSends' = Append(lastSends, Head(sender))
    /\ sender' = Tail(sender)
    /\ UNCHANGED <<trackerVars, staged, oracle, chain, job, lastTx,
                   signerVars, upserting, reader, stream, retry>>

\* liquidation_rx.recv() hands the oldest user to the consumer
ConsumerRecv ==
    /\ channel # <<>>
    /\ channel' = Tail(channel)
    /\ UNCHANGED <<trackerVars, staged, oracle, chain, job, lastSends,
                   lastTx, signerVars, loopVars>>

NextChannel ==
    \/ \E users \in {<<u>> : u \in ScanUsers}
                    \cup {<<u, v>> : u \in ScanUsers, v \in ScanUsers} :
           HandlerBegin(users)
    \/ HandlerSuspend
    \/ HandlerSend
    \/ ConsumerRecv

\* the runtime polls a send that can complete, and the consumer loop goes
\* back to recv after every execute_liquidation
SpecChannel ==
    /\ Init
    /\ [][NextChannel]_vars
    /\ WF_vars(HandlerSend)
    /\ WF_vars(ConsumerRecv)

\* C17: the liquidation channel never holds more than 100 users; a handler
\* that sends while the channel is full makes no progress until the
\* consumer has freed a slot; a user leaves the handler's hands only by
\* being appended to the channel; and every pending send is completed.
C17_FullChannelSuspendsSender ==
    /\ [](Len(channel) <= LIQUIDATION_CHANNEL_CAPACITY)
    /\ [][(sender # <<>> /\ Len(channel) = LIQUIDATION_CHANNEL_CAPACITY)
              => /\ Len(sender') = Len(sender)
                 /\ sender'[1].user = sender[1].user]_vars
    /\ [][(sender # <<>> /\ sender' # sender /\ Len(sender') # Len(sender))
              => /\ sender' = Tail(sender)
                 /\ channel' = Append(channel, Head(sender).user)]_vars
    /\ (sender # <<>>) ~> (sender = <<>>)

\* a send that found the channel full has completed, and the channel is
\* full again with that user on it
C17_Witness ==
    /\ Len(channel) = LIQUIDATION_CHANNEL_CAPACITY
    /\ \E k \in 1..Len(lastSends) : lastSends[k].waited

\* ------------------------------------ the event-stream reconnect loops
\* a loop that leaves when the stream ends cleanly
break_on_stream_end(exit) ==
    IF exit = "ended" THEN "done" ELSE "backoff"

\* the match on the result of oracle_event_loop / pool_event_loop inside
\* the spawned loop: both arms log and fall through to the sleep
after_event_loop(exit) ==
    "backoff"

\* subscribe_oracle_updates / subscribe_pool_events returns: a stream, or
\* an error that `?` hands to the spawned loop
Subscribe(t, ok) ==
    /\ stream[t].pc = "subscribe"
    /\ stream' = [stream EXCEPT ![t] =
                     IF ok
                     THEN [@ EXCEPT !.pc = "drain"]
                     ELSE [@ EXCEPT !.pc = after_event_loop("failed"),
                                    !.exit = "failed",
                                    !.elapsed = 0]]
    /\ UNCHANGED <<trackerVars, scanVars, signerVars, upserting, reader,
                   sender, retry>>

\* stream.next() yields an event and the handler starts
EventArrives(t) ==
    /\ stream[t].pc = "drain"
    /\ ~stream[t].handling
    /\ stream' = [stream EXCEPT ![t].handling = TRUE]
    /\ UNCHANGED <<trackerVars, scanVars, signerVars, upserting, reader,
                   sender, retry>>

\* the handler returns; an Err is logged and the drain loop goes on
HandlerReturns(t) ==
    /\ stream[t].pc = "drain"
    /\ stream[t].handling
    /\ stream' = [stream EXCEPT ![t].handling = FALSE]
    /\ UNCHANGED <<trackerVars, scanVars, signerVars, upserting, reader,
                   sender, retry>>

\* stream.next() yields None: the event loop returns Ok(())
StreamEnds(t) ==
    /\ stream[t].pc = "drain"
    /\ ~stream[t].handling
    /\ stream' = [stream EXCEPT ![t] =
                     [@ EXCEPT !.pc = after_event_loop("ended"),
                               !.exit = "ended",
                               !.elapsed = 0]]
    /\ UNCHANGED <<trackerVars, scanVars, signerVars, upserting, reader,
                   sender, retry>>

\* one second of the sleep passes
Tick(t) ==
    /\ stream[t].pc = "backoff"
    /\ stream[t].elapsed < RECONNECT_DELAY_SECS
    /\ stream' = [stream EXCEPT ![t].elapsed = @ + 1]
    /\ UNCHANGED <<trackerVars, scanVars, signerVars, upserting, reader,
                   sender, retry>>

\* the sleep is over and the loop calls the event loop again
Resubscribe(t) ==
    /\ stream[t].pc = "backoff"
    /\ stream[t].elapsed = RECONNECT_DELAY_SECS
    /\ stream' = [stream EXCEPT ![t] =
                     [@ EXCEPT !.pc = "subscribe", !.elapsed = 0]]
    /\ UNCHANGED <<trackerVars, scanVars, signerVars, upserting, reader,
                   sender, retry>>

NextStreams ==
    \E t \in StreamTasks :
        \/ \E ok \in BOOLEAN : Subscribe(t, ok)
        \/ EventArrives(t)
        \/ HandlerReturns(t)
        \/ StreamEnds(t)
        \/ Tick(t)
        \/ Resubscribe(t)

\* time passes for a sleeping task and the runtime wakes it when the
\* sleep is over
SpecStreams ==
    /\ Init
    /\ [][NextStreams]_vars
    /\ \A t \in StreamTasks : WF_vars(Tick(t)) /\ WF_vars(Resubscribe(t))

\* C18: an event-stream task is always subscribing, draining or sleeping;
\* it leaves the drain loop or a failed subscribe only into a sleep that
\* starts at zero, leaves the sleep only after 5 s and only to subscribe,
\* and every sleep is followed by a subscribe.
C18_StreamsAlwaysResubscribe ==
    /\ [](\A t \in StreamTasks :
             stream[t].pc \in {"subscribe", "drain", "backoff"})
    /\ [][\A t \in StreamTasks :
              /\ (stream[t].pc \in {"subscribe", "drain"}
                    /\ stream'[t].pc \notin {stream[t].pc, "drain"})
                     => /\ stream'[t].pc = "backoff"
                        /\ stream'[t].elapsed = 0
              /\ (stream[t].pc = "backoff" /\ stream'[t].pc # "backoff")
                     => /\ stream'[t].pc = "subscribe"
                        /\ stream[t].elapsed = RECONNECT_DELAY_SECS]_vars
    /\ \A t \in StreamTasks :
           (stream[t].pc = "backoff") ~> (stream[t].pc = "subscribe")

\* the oracle task drains again after a clean end of its stream while the
\* pool task drains again after a failed subscribe
C18_Witness ==
    /\ stream["oracle"].pc = "drain"
    /\ stream["oracle"].exit = "ended"
    /\ stream["pool"].pc = "drain"
    /\ stream["pool"].exit = "failed"

\* --------------------------------------- Liquidator::execute_with_retry
\* error messages, as the words and punctuation marks of the text that
\* anyhow's to_string gives
NOT_LIQUIDATABLE == <<"Position", "not", "liquidatable", "(HF", ">=", "1.0)">>
BAD_DEBT == <<"Position", "is", "bad", "debt">>
NO_COLLATERAL == <<"No", "collateral", "found">>
NO_DEBT == <<"No", "debt", "found">>
LIKELY_NOT_PROFITABLE ==
    <<"Liquidation", "likely", "not", "profitable", ":", "estimated",
      "$est", ",", "minimum", "$min">>
NOT_PROFITABLE ==
    <<"Liquidation", "not", "profitable", ":", "expected", "$exp", ",",
      "minimum", "$min">>
TRANSACTION_REVERTED == <<"Transaction", "reverted", ":", "tx_hash">>
SIGNER_NOT_CONFIGURED ==
    <<"Transaction", "ready", "but", "signer", "not", "configured", ".",
      "Calldata", ":", "n", "bytes">>
RETRIES_EXHAUSTED == <<"All", "retry", "attempts", "exhausted">>

\* the errors build_and_execute raises itself, and two it passes on from
\* the contract call
BuildErrors ==
    {NOT_LIQUIDATABLE, BAD_DEBT, NO_COLLATERAL, NO_DEBT,
     LIKELY_NOT_PROFITABLE, NOT_PROFITABLE}
ContractErrors == {TRANSACTION_REVERTED, SIGNER_NOT_CONFIGURED}

\* str::contains, on words
contains(error_str, needle) ==
    \E i \in 1..(Len(error_str) - Len(needle) + 1) :
        SubSeq(error_str, i, i + Len(needle) - 1) = needle

\* the needles compared in lower case only
is_non_retryable_lowercase(error_str) ==
    \/ contains(error_str, <<"not", "profitable">>)
    \/ contains(error_str, <<"not", "liquidatable">>)
    \/ contains(error_str, <<"bad", "debt">>)
    \/ contains(error_str, <<"no", "collateral">>)
    \/ contains(error_str, <<"no", "debt">>)

\* the "Don't retry certain errors" test
is_non_retryable(error_str) ==
    \/ contains(error_str, <<"not", "profitable">>)
    \/ contains(error_str, <<"not", "liquidatable">>)
    \/ contains(error_str, <<"bad", "debt">>)
    \/ contains(error_str, <<"No", "collateral">>)
    \/ contains(error_str, <<"No", "debt">>)

\* base_delay * (1 << (attempt - 1).min(3)), in milliseconds
retry_delay_ms(attempt) ==
    LET shift == IF attempt - 1 < 3 THEN attempt - 1 ELSE 3
    IN  BASE_DELAY_MS * (2 ^ shift)

\* a range that leaves out its upper end
range_exclusive(attempt, max_retries) ==
    attempt < max_retries

\* attempt is still inside 0..=max_retries
range_inclusive(attempt, max_retries) ==
    attempt <= max_retries

Ok == [ok |-> TRUE, error |-> <<>>]
Err(e) == [ok |-> FALSE, error |-> e]
AttemptOutcomes == {Ok} \cup {Err(e) : e \in BuildErrors \cup ContractErrors}

RetryRunning ==
    IF retry = None THEN FALSE ELSE retry.pc # "done"

\* execute_with_retry(position, max_retries) is called
RetryBegin(max_retries) ==
    /\ ~RetryRunning
    /\ retry' = [max_retries |-> max_retries, attempt |-> 0,
                 outcomes |-> <<>>, delays |-> <<>>, last_error |-> <<>>,
                 pc |-> "loop", result |-> None]
    /\ UNCHANGED <<trackerVars, scanVars, signerVars, upserting, reader,
                   sender, stream>>

\* the head of the for loop: leave it, or sleep (after the first attempt)
\* and go on to the attempt
RetryLoopHead ==
    /\ RetryRunning
    /\ retry.pc = "loop"
    /\ retry' =
         IF range_inclusive(retry.attempt, retry.max_retries)
         THEN [retry EXCEPT
                 !.delays = IF retry.attempt > 0
                            THEN Append(@, retry_delay_ms(retry.attempt))
                            ELSE @,
                 !.pc = "attempt"]
         ELSE [retry EXCEPT
                 !.pc = "done",
                 !.result = Err(IF retry.last_error = <<>>
                                THEN RETRIES_EXHAUSTED
                                ELSE retry.last_error)]
    /\ UNCHANGED <<trackerVars, scanVars, signerVars, upserting, reader,
                   sender, stream>>

\* build_and_execute returns and the match on its result runs
AttemptReturns(outcome) ==
    /\ RetryRunning
    /\ retry.pc = "attempt"
    /\ retry' =
         IF outcome.ok
         THEN [retry EXCEPT !.outcomes = Append(@, outcome),
                            !.pc = "done", !.result = outcome]
         ELSE IF is_non_retryable(outcome.error)
         THEN [retry EXCEPT !.outcomes = Append(@, outcome),
                            !.pc = "done", !.result = Err(outcome.error)]
         ELSE [retry EXCEPT !.outcomes = Append(@, outcome),
                            !.last_error = outcome.error,
                            !.attempt = @ + 1,
                            !.pc = "loop"]
    /\ UNCHANGED <<trackerVars, scanVars, signerVars, upserting, reader,
                   sender, stream>>

NextRetry ==
    \/ \E max_retries \in 0..MaxRetries : RetryBegin(max_retries)
    \/ RetryLoopHead
    \/ \E outcome \in AttemptOutcomes : AttemptReturns(outcome)

\* the loop head runs when reached, and every build_and_execute returns
SpecRetry ==
    /\ Init
    /\ [][NextRetry]_vars
    /\ WF_vars(RetryLoopHead)
    /\ WF_vars(\E outcome \in AttemptOutcomes : AttemptReturns(outcome))

LastOutcome ==
    retry.outcomes[Len(retry.outcomes)]

AllFailedRetryably ==
    /\ retry.outcomes # <<>>
    /\ \A k \in 1..Len(retry.outcomes) :
          retry.outcomes[k] \in {Err(e) : e \in ContractErrors}

\* C19: once an attempt has failed with one of the not-profitable,
\* not-liquidatable, bad-debt, no-collateral or no-debt errors of
\* build_and_execute, the call is over with that error as its result, no
\* delay was taken after the failed attempt and no attempt follows it.
C19_NonRetryableEndsCall ==
    IF retry = None THEN TRUE
    ELSE IF retry.outcomes = <<>> THEN TRUE
    ELSE LastOutcome \in {Err(e) : e \in BuildErrors}
            => /\ retry.pc = "done"
               /\ retry.result = LastOutcome
               /\ Len(retry.outcomes) = retry.attempt + 1
               /\ Len(retry.delays) = retry.attempt

\* a no-collateral error on the third attempt ended the call after the two
\* delays that preceded the attempt
C19_Witness ==
    IF retry = None THEN FALSE
    ELSE /\ retry.max_retries > 2
         /\ Len(retry.outcomes) = 3
         /\ LastOutcome = Err(NO_COLLATERAL)
         /\ retry.pc = "done"
         /\ retry.delays = <<200, 400>>

\* the call is over and every attempt failed with an error that is retried
ExhaustedRetries ==
    IF retry = None THEN FALSE
    ELSE retry.pc = "done" /\ AllFailedRetryably

\* C20 as stated: a call with limit N ends, makes at most N attempts, and
\* when every attempt failed with a retryable error its result is the
\* error of the last attempt.
C20_AtMostNAttempts ==
    /\ [](IF retry = None THEN TRUE
          ELSE Len(retry.outcomes) <= retry.max_retries)
    /\ [](ExhaustedRetries => retry.result = LastOutcome)
    /\ RetryRunning ~> ~RetryRunning

\* C20 with the first attempt counted apart from the retries: a call with
\* limit N ends, makes at most N + 1 attempts (one attempt and up to N
\* retries), exactly N + 1 when every attempt fails with a retryable
\* error, and its result is then the error of the last attempt.
C20_AtMostNRetries ==
    /\ [](IF retry = None THEN TRUE
          ELSE Len(retry.outcomes) <= retry.max_retries + 1)
    /\ [](ExhaustedRetries
            => /\ retry.result = LastOutcome
               /\ Len(retry.outcomes) = retry.max_retries + 1)
    /\ RetryRunning ~> ~RetryRunning

\* a call with limit 5 has failed six times, the last time with an error
\* other than the first, after the delays 200, 400, 800, 1600, 1600 ms
C20_Witness ==
    /\ ExhaustedRetries
    /\ retry.max_retries = MaxRetries
    /\ Len(retry.outcomes) = MaxRetries + 1
    /\ retry.outcomes[1] = Err(TRANSACTION_REVERTED)
    /\ retry.result = Err(SIGNER_NOT_CONFIGURED)
    /\ retry.delays = <<200, 400, 800, 1600, 1600>>

\* ------------------------------------------- the amount of debt to cover
\* routes for half of the collateral whose expected output, in units of the
\* debt token, is anything up to MaxOutput
CoverRoutes(p) ==
    LET half == (largest_collateral(p).value_usd * 1000) \div 2
    IN  {[expected_input_usd |-> half, expected_output_usd |-> half,
          expected_output |-> o] : o \in 0..MaxOutput}

\* stage_position, from the call to the entry it inserts
CoverStage(user, swap_route) ==
    LET position == get(tracker, user)
    IN  /\ job = None
        /\ get_tier(tracker, user) = "Critical"
        /\ should_stage(position)
        /\ largest_collateral(position) # None
        /\ largest_debt(position) # None
        /\ swap_route \in CoverRoutes(position)
        /\ staged' = [staged EXCEPT ![user] =
                          StagedEntry(position, swap_route,
                                      largest_debt(position).amount,
                                      StagePriceSnapshot(tracker, position))]
        /\ lastSends' = <<>>
        /\ lastTx' = None
        /\ UNCHANGED <<trackerVars, loopVars, oracle, chain, channel, job,
                       signerVars>>

\* execute_liquidation for a user the consumer has received
CoverExecute(user, swap_route, tx_ok) ==
    /\ get(tracker, user) # None
    /\ largest_collateral(get(tracker, user)) # None
    /\ swap_route \in CoverRoutes(get(tracker, user))
    /\ LET r == execute_liquidation(tracker, staged, user, swap_route, tx_ok)
       IN  /\ tracker' = r.tracker
           /\ lastTx' = r.tx
    /\ lastSends' = <<>>
    /\ UNCHANGED <<live, lastQuery, loopVars, staged, oracle, chain, channel,
                   job, signerVars>>

NextCover ==
    \/ \E u \in ScanUsers, sa \in {0, CoverSupply},
          ba \in {0, MaxCoverAmount - 1, MaxCoverAmount} :
           ChainActivity(u, sa, ba)
    \/ \E u \in ScanUsers, ok \in BOOLEAN : OnPoolEvent(u, ok)
    \/ \E u \in ScanUsers : TtlElapses(u)
    \/ \E u \in ScanUsers :
       \E route \in IF get(tracker, u) = None THEN {}
                    ELSE IF largest_collateral(get(tracker, u)) = None THEN {}
                    ELSE CoverRoutes(get(tracker, u)) :
           \/ CoverStage(u, route)
           \/ \E ok \in BOOLEAN : CoverExecute(u, route, ok)

SpecCover ==
    InitScanner /\ [][NextCover]_vars

\* C21: every submitted liquidation covers U256::MAX when the expected
\* output of its swap route is at least the amount of the debt being
\* repaid, and the expected output otherwise.
C21_DebtToCoverFromRoute ==
    lastTx # None
        => lastTx.debt_to_cover =
               IF lastTx.expected_output >= lastTx.debt_amount
               THEN MAX_AMOUNT
               ELSE lastTx.expected_output

\* ------------------------- SwapRouterRegistry::get_route_with_fallback
NO_ROUTER_FOR_CHAIN == [ok |-> FALSE, error |-> "No router available for chain"]
NO_ROUTERS_AVAILABLE == [ok |-> FALSE, error |-> "No routers available"]

\* what one call of a router returns: a route, or one of two errors; the
\* answer carries the router and the call it came from
RouterAnswers == {"route", "no_route", "timeout"}

Answer(router, call, kind) ==
    [ok |-> kind = "route", router |-> router, call |-> call, kind |-> kind]

\* a router of the registry, by what its two route calls return
Router(id, cached_kind, kind) ==
    [router_id |-> id,
     get_route_cached |-> Answer(id, "get_route_cached", cached_kind),
     get_route |-> Answer(id, "get_route", kind)]

\* the for loop over the routers of the chain, from router i on
RECURSIVE TryRouters(_, _, _, _)
TryRouters(routers, i, last_error, asked) ==
    IF i > Len(routers)
    THEN [result |-> IF last_error = None THEN NO_ROUTERS_AVAILABLE
                     ELSE last_error,
          asked |-> asked]
    ELSE LET r == routers[i].get_route_cached
         IN  IF r.ok
             THEN [result |-> r, asked |-> Append(asked, routers[i].router_id)]
             ELSE TryRouters(routers, i + 1, r,
                             Append(asked, routers[i].router_id))

\* the loop keeping the first error instead of the last
RECURSIVE TryRoutersFirstError(_, _, _, _)
TryRoutersFirstError(routers, i, last_error, asked) ==
    IF i > Len(routers)
    THEN [result |-> IF last_error = None THEN NO_ROUTERS_AVAILABLE
                     ELSE last_error,
          asked |-> asked]
    ELSE LET r == routers[i].get_route_cached
         IN  IF r.ok
             THEN [result |-> r, asked |-> Append(asked, routers[i].router_id)]
             ELSE TryRoutersFirstError(routers, i + 1,
                                       IF last_error = None THEN r
                                       ELSE last_error,
                                       Append(asked, routers[i].router_id))

fallback_first_error(routers, default_router) ==
    IF routers = <<>>
    THEN IF default_router # None
         THEN [result |-> default_router.get_route, asked |-> <<0>>]
         ELSE [result |-> NO_ROUTER_FOR_CHAIN, asked |-> <<>>]
    ELSE TryRoutersFirstError(routers, 1, None, <<>>)

\* routers: get_routers_for_chain(chain_id), in registration order;
\* default_router: the registry's default, or None
get_route_with_fallback(routers, default_router) ==
    IF routers = <<>>
    THEN IF default_router # None
         THEN [result |-> default_router.get_route, asked |-> <<0>>]
         ELSE [result |-> NO_ROUTER_FOR_CHAIN, asked |-> <<>>]
    ELSE TryRouters(routers, 1, None, <<>>)

\* registries: up to MaxRouters routers for the chain, numbered in
\* registration order, and no default or one numbered 0
ChainRouters ==
    UNION {{[i \in 1..n |-> Router(i, kinds[i], kinds[i])] :
               kinds \in [1..n -> RouterAnswers]} : n \in 0..MaxRouters}

DefaultRouters ==
    {None} \cup {Router(0, cached_kind, kind) :
                    cached_kind \in {"route", "timeout"},
                    kind \in {"route", "timeout"}}

GetRouteWithFallback(routers, default_router) ==
    /\ lastQuery' = [routers |-> routers, default_router |-> default_router,
                     out |-> get_route_with_fallback(routers, default_router)]
    /\ UNCHANGED <<tracker, live, scannerVars, loopVars>>

NextRoutes ==
    \E routers \in ChainRouters, default_router \in DefaultRouters :
        GetRouteWithFallback(routers, default_router)

SpecRoutes ==
    Init /\ [][NextRoutes]_vars

\* the routers of the list whose cached route call succeeds
Succeeding(routers) ==
    {i \in 1..Len(routers) : routers[i].get_route_cached.ok}

FirstSucceeding(routers) ==
    CHOOSE i \in Succeeding(routers) : \A j \in Succeeding(routers) : i <= j

\* C22: with routers registered for the chain, the routers asked are the
\* registered ones in registration order up to and including the first
\* whose cached route call succeeds, and the result is that call's route;
\* when none succeeds all are asked and the result is the error of the last
\* one; with no router registered and no default the result is a
\* no-router error and nobody is asked.
C22_FirstSuccessOrLastError ==
    IF lastQuery = None THEN TRUE
    ELSE LET routers == lastQuery.routers
             out == lastQuery.out
         IN  IF routers # <<>>
             THEN IF Succeeding(routers) # {}
                  THEN /\ out.asked = [i \in 1..FirstSucceeding(routers) |-> i]
                       /\ out.result =
                            routers[FirstSucceeding(routers)].get_route_cached
                  ELSE /\ out.asked = [i \in 1..Len(routers) |-> i]
                       /\ out.result = routers[Len(routers)].get_route_cached
             ELSE lastQuery.default_router = None
                     => /\ out.asked = <<>>
                        /\ ~out.result.ok
                        /\ out.result \in {NO_ROUTER_FOR_CHAIN,
                                           NO_ROUTERS_AVAILABLE}

\* the first router timed out, the second answered with a route and the
\* third, which would have answered too, was not asked
C22_Witness ==
    IF lastQuery = None THEN FALSE
    ELSE /\ Len(lastQuery.routers) = 3
         /\ lastQuery.routers[1].get_route_cached.kind = "timeout"
         /\ lastQuery.routers[2].get_route_cached.ok
         /\ lastQuery.routers[3].get_route_cached.ok
         /\ lastQuery.out.asked = <<1, 2>>
         /\ lastQuery.out.result.router = 2

\* ------------------------------------- a queue entry after a liquidation
\* history: the users liquidated successfully so far
Liquidated ==
    IF lastQuery = None THEN {} ELSE lastQuery.liquidated

\* the health factor of the user computed from the balances and oracle
\* prices the chain holds now
ChainHealthFactor(user) ==
    BuildPosition(user, Fetched(user).supplies,
                  Fetched(user).borrows).health_factor

\* the dispatch consumer takes the next user off the channel and runs
\* execute_liquidation; the history records whether the user had been
\* liquidated before, whether the tracker held it when the call began,
\* and whether the chain gave the user a health factor below 1.0 then
RepeatDispatch(swap_route, tx_ok) ==
    /\ channel # <<>>
    /\ swap_route \in FreshRoutes(Head(channel))
    /\ LET user == Head(channel)
           r == execute_liquidation(tracker, staged, user, swap_route, tx_ok)
       IN  /\ tracker' = r.tracker
           /\ lastTx' = r.tx
           /\ lastQuery' =
                  [user |-> user,
                   liquidated_before |-> user \in Liquidated,
                   tracked |-> get(tracker, user) # None,
                   chain_liquidatable |-> ChainHealthFactor(user) < 100,
                   liquidated |->
                       IF r.tx # None /\ r.tx.confirmed
                       THEN Liquidated \cup {user} ELSE Liquidated]
    /\ channel' = Tail(channel)
    /\ lastSends' = <<>>
    /\ UNCHANGED <<live, loopVars, staged, oracle, chain, job, signerVars>>

NextRepeat ==
    \/ \E u \in ScanUsers, sa \in 0..MaxScanAmount, ba \in 0..MaxScanAmount :
           ChainActivity(u, sa, ba)
    \/ \E price \in ScanPrices(1) \ {0} : OnOracleUpdate(1, price)
    \/ \E u \in ScanUsers : OnPoolEvent(u, TRUE)
    \/ \E u \in ScanUsers : StageBegin(u, "critical_cycle")
    \/ \E route \in IF job = None THEN {} ELSE SwapRoutes(job.position) :
           StageFinish(route)
    \/ \E u \in ScanUsers : TtlElapses(u)
    \/ \E ok \in BOOLEAN :
       \E route \in IF channel = <<>> THEN {} ELSE FreshRoutes(Head(channel)) :
           RepeatDispatch(route, ok)

SpecRepeat ==
    InitScanner /\ [][NextRepeat]_vars

\* C24: a liquidation transaction submitted for a user that has been
\* liquidated successfully before is submitted only when the tracker holds
\* the user again, which it does only after a new fetch of the position.
C24_NoSubmissionAfterSuccess ==
    (lastTx # None /\ lastQuery # None)
        => IF lastQuery.liquidated_before THEN lastQuery.tracked ELSE TRUE

\* C27: whenever a liquidation transaction is submitted, the health factor
\* computed at full precision from the chain's balances and prices at that
\* moment is below 1.0.
C27_SubmittedBelowOneOnChain ==
    (lastTx # None /\ lastQuery # None)
        => lastQuery.chain_liquidatable

\* ------------------------------------- the price cache during an update
\* In this specification sender holds the oracle handler between its
\* steps: the update it handles, the old price it read, and what it does
\* next.  Other tasks read the price cache in between (process_wallet
\* passes tracker.prices() to PositionSensitivity::compute).
OracleReadOld(asset, price) ==
    /\ sender = <<>>
    /\ oracle' = [oracle EXCEPT ![asset] = price]
    /\ sender' = <<[asset |-> asset, price |-> price,
                    cached |-> get_price(tracker, asset),
                    old_price |-> old_price_of(tracker, asset),
                    pc |-> "update_price"]>>
    /\ lastSends' = <<>>
    /\ lastTx' = None
    /\ UNCHANGED <<trackerVars, staged, chain, channel, job, signerVars,
                   upserting, reader, stream, retry>>

\* self.tracker.update_price(update.asset, ...)
OracleWriteCache ==
    /\ sender # <<>>
    /\ Head(sender).pc = "update_price"
    /\ tracker' = update_price(tracker, Head(sender).asset, Head(sender).price)
    /\ sender' = <<[Head(sender) EXCEPT !.pc = "get_liquidatable_at"]>>
    /\ UNCHANGED <<live, lastQuery, scannerVars, upserting, reader, stream,
                   retry>>

\* the trigger query and everything after it
OracleQueryTriggers ==
    /\ sender # <<>>
    /\ Head(sender).pc = "get_liquidatable_at"
    /\ LET r == after_price_write(tracker, staged, Head(sender).asset,
                                  Head(sender).price, Head(sender).old_price)
       IN  /\ Len(channel) + Len(r.sends) <= MaxQueue
           /\ tracker' = r.tracker
           /\ staged' = r.staged
           /\ channel' = channel \o MapSeq(r.sends, LAMBDA m : m.user)
           /\ lastSends' = r.sends
    /\ lastTx' = None
    /\ sender' = <<>>
    /\ UNCHANGED <<live, lastQuery, oracle, chain, job, signerVars, upserting,
                   reader, stream, retry>>

\* another task reads the cached price of an asset; the history records
\* the price it saw and the oracle handler in progress at that moment
CacheRead(asset) ==
    /\ lastQuery' = [asset |-> asset, price |-> get_price(tracker, asset),
                     handler |-> sender]
    /\ UNCHANGED <<tracker, live, scannerVars, loopVars>>

NextCache ==
    \/ \E u \in ScanUsers, sa \in 0..MaxScanAmount, ba \in 0..MaxScanAmount :
           ChainActivity(u, sa, ba)
    \/ \E u \in ScanUsers : OnPoolEvent(u, TRUE)
    \/ \E price \in ScanPrices(1) : OracleReadOld(1, price)
    \/ OracleWriteCache
    \/ OracleQueryTriggers
    \/ CacheRead(1)

SpecCache ==
    InitScanner /\ [][NextCache]_vars

\* C26: a task that reads the cached price of an asset while an oracle
\* update of that asset to a different price is being handled, and before
\* the handler has queried the trigger index, does not see the new price.
C26_CacheWrittenAfterTriggerQuery ==
    IF lastQuery = None THEN TRUE
    ELSE IF lastQuery.handler = <<>> THEN TRUE
    ELSE LET h == Head(lastQuery.handler)
         IN  (/\ h.asset = lastQuery.asset
              /\ h.price # h.cached
              /\ h.pc \in {"update_price", "get_liquidatable_at"})
                 => lastQuery.price # h.price

\* C28: whenever an oracle update has been handled, the sensitivity of
\* every position the handler estimated (the affected positions that
\* carry one) was not stale against the price cache the handler worked
\* with: no snapshot price had drifted by more than the deviation
\* threshold.
C28_NoStaleSensitivityUsed ==
    [][\A a \in Assets :
           (oracle'[a] # oracle[a] /\ tracker'.prices[a] = oracle'[a])
               => \A u \in users_affected_by_asset(tracker, a) :
                      IF get(tracker, u) = None THEN TRUE
                      ELSE IF get(tracker, u).sensitivity = None THEN TRUE
                      ELSE ~is_stale(get(tracker, u).sensitivity,
                                     tracker'.prices,
                                     price_deviation_threshold_bps)]_vars

\* C29: the critical cycle calls stage_position for the critical positions
\* for which has_valid_staged is false.  A critical position whose staged
\* entry validate_staged would not report as Valid (not staged, expired,
\* position changed, price stale) is therefore one the next tick stages
\* again: has_valid_staged is false for it.
C29_InvalidStagedIsRestaged ==
    \A u \in ScanUsers :
        (/\ get_tier(tracker, u) = "Critical"
         /\ validate_staged(staged, u, get(tracker, u),
                            tracker.prices).kind # "Valid")
            => ~has_valid_staged(staged, u)

\* the health factor the sensitivity estimate gives the position at the new
\* price of the asset: from the sensitivity the position carries, or, for
\* a position that carries none, from the one computed for it at the
\* prices cached before the update
EstimatedHealthFactor(t, p, asset, price) ==
    estimate_hf_from_prices(IF p.sensitivity # None THEN p.sensitivity
                            ELSE compute(p, t.prices),
                            asset, price)

\* C30: when an oracle update of an asset has been handled, every position
\* that was tracked with the asset as collateral or debt, and whose
\* estimated health factor at the new price belongs to another tier than
\* the one that held it, is held by that tier.
C30_AffectedPositionsRetiered ==
    [][\A a \in Assets :
           (oracle'[a] # oracle[a] /\ tracker'.prices[a] = oracle'[a])
               => \A u \in users_affected_by_asset(tracker, a) :
                      IF get(tracker, u) = None THEN TRUE
                      ELSE LET new_tier ==
                                   from_health_factor(
                                       EstimatedHealthFactor(
                                           tracker, get(tracker, u), a,
                                           oracle'[a]))
                           IN  new_tier # get_tier(tracker, u)
                                   => get_tier(tracker', u) = new_tier]_vars

\* the tracker holds nothing about the user: no tier container, no holder
\* set and no trigger entry
Untracked(t, user) ==
    /\ ContainerCount(t, user) = 0
    /\ \A a \in Assets : /\ user \notin t.collateral_holders[a]
                         /\ user \notin t.debt_holders[a]
                         /\ \A i \in 1..Len(t.triggers_by_asset[a]) :
                                t.triggers_by_asset[a][i].user # user

\* C31: for every tracked user whose balances on chain now make up a bad
\* debt position, the refresh of the user (process_wallet on the fetched
\* balances) leaves the user in no tier, in no reverse index and without
\* trigger entries.
C31_BadDebtRefreshRemoves ==
    \A u \in ScanUsers :
        LET f == Fetched(u)
        IN  (/\ get(tracker, u) # None
             /\ ~(f.supplies = <<>> /\ f.borrows = <<>>)
             /\ is_bad_debt(BuildPosition(u, f.supplies, f.borrows)))
                => Untracked(process_wallet(tracker, u, f.supplies,
                                            f.borrows), u)

\* C32: when send_transaction has seen its transaction revert, the step
\* that follows leaves the nonce manager at the account's transaction count
\* on chain and takes the execution back to another attempt of the same
\* liquidation, instead of ending the execution.
C32_RevertIsRetried ==
    [][\A t \in Tasks :
          (task[t].pc = "sync" /\ task'[t].pc # "sync")
             => /\ nonce_current' = get_transaction_count
                /\ task'[t].pc = "check"
                /\ task'[t].phase = task[t].phase]_vars

\* the last execution submitted a transaction for the user and it failed
AttemptFailed(user) ==
    IF lastTx = None THEN FALSE
    ELSE lastTx.user = user /\ ~lastTx.confirmed

\* the step is the handling of a pool event of the user, or of an oracle
\* update of an asset the user's tracked position lists
EventOf(user) ==
    \/ OnPoolEvent(user, TRUE)
    \/ \E a \in Assets : \E price \in ScanPrices(a) :
          /\ ListsAsset(get(tracker, user), a)
          /\ OnOracleUpdate(a, price)

\* C33: right after a failed liquidation attempt for a user the tracker
\* still holds the user, and if the next step handles a pool event of the
\* user or an oracle update of one of its assets, and the tracked position
\* is liquidatable afterwards, the user is on the liquidation channel.
C33_FailedIsReEnqueued ==
    [][\A u \in ScanUsers :
          AttemptFailed(u)
             => /\ get(tracker, u) # None
                /\ (/\ EventOf(u)
                    /\ get(tracker', u) # None
                    /\ is_liquidatable(get(tracker', u)))
                      => u \in SeqToSet(channel')]_vars

\* the step refreshes the user from the chain: a pool event, the cold
\* cycle, or a bootstrap batch that holds the user
RefreshOf(user) ==
    \/ \E fetch_ok \in BOOLEAN : OnPoolEvent(user, fetch_ok)
    \/ ColdCycle(user)
    \/ \E wallets \in SUBSET ScanUsers : user \in wallets /\ BootstrapSync(wallets)

\* C34: a refresh drops a tracked user only when the chain holds no supply
\* and no borrow of the user; a fetch that failed drops nobody.
C34_FailedFetchKeepsPosition ==
    [][\A u \in ScanUsers :
          (RefreshOf(u) /\ get(tracker, u) # None /\ get(tracker', u) = None)
             => (Fetched(u).supplies = <<>> /\ Fetched(u).borrows = <<>>)]_vars

\* ------------------------------- trigger re-derivation next to a removal
\* In this specification reader holds a cycle between its steps: the
\* snapshots it collected from the tracker and has still to work through.

\* warm_cycle: the tick collects the snapshots of the warm map
WarmCycleBegin ==
    /\ reader = None
    /\ DOMAIN tracker.warm # {}
    /\ reader' = [cycle |-> "warm",
                  positions |-> MapValues(tracker.warm, DOMAIN tracker.warm)]
    /\ UNCHANGED <<trackerVars, scannerVars, upserting, sender, stream,
                   retry>>

\* warm_cycle, one round of the for loop: a snapshot that needs an update
\* has its triggers derived again
WarmCycleStep(needs_update) ==
    /\ reader # None
    /\ reader.cycle = "warm"
    /\ tracker' = IF needs_update
                  THEN [tracker EXCEPT !.triggers_by_asset =
                            update_position(@, Head(reader.positions))]
                  ELSE tracker
    /\ reader' = IF Tail(reader.positions) = <<>> THEN None
                 ELSE [reader EXCEPT !.positions = Tail(@)]
    /\ UNCHANGED <<live, lastQuery, scannerVars, upserting, sender, stream,
                   retry>>

\* rebuild_trigger_index, first line: all_positions collects the snapshots
RebuildBegin ==
    /\ reader = None
    /\ reader' = [cycle |-> "rebuild", positions |-> all_positions(tracker)]
    /\ UNCHANGED <<trackerVars, scannerVars, upserting, sender, stream,
                   retry>>

\* rebuild_trigger_index, second line: the index is cleared and filled from
\* the snapshots collected
RebuildStep ==
    /\ reader # None
    /\ reader.cycle = "rebuild"
    /\ tracker' = [tracker EXCEPT !.triggers_by_asset =
                      rebuild([a \in Assets |-> <<>>], reader.positions)]
    /\ reader' = None
    /\ UNCHANGED <<live, lastQuery, scannerVars, upserting, sender, stream,
                   retry>>

NextWarm ==
    \/ \E u \in Users, tr \in {"Warm", "Cold"} :
           Upsert(u, OnlyAsset(1, 1), OnlyAsset(2, 1), tr)
    \/ \E u \in Users : Remove(u)
    \/ WarmCycleBegin
    \/ \E needs_update \in BOOLEAN : WarmCycleStep(needs_update)
    \/ RebuildBegin
    \/ RebuildStep

SpecWarm ==
    Init /\ [][NextWarm]_vars

\* C35: every entry of the trigger index belongs to a user that has been
\* upserted and not removed since.
C35_TriggersOnlyForTracked ==
    \A a \in Assets :
        \A i \in 1..Len(tracker.triggers_by_asset[a]) :
            tracker.triggers_by_asset[a][i].user \in live

\* no other task holds a nonce and the node holds no pending transaction
NoOtherNonceInFlight(t) ==
    /\ mempool = {}
    /\ \A o \in Tasks \ {t} : task[o].pc \notin {"submit", "receipt", "sync"}

\* C36: when send_transaction ends with a gas-parameter or submit error,
\* and no other transaction of the account is in flight, the nonce the
\* manager hands out next is the account's transaction count on chain.
C36_FailedSendLeavesNoGap ==
    [][\A t \in Tasks :
          (/\ task[t].pc = "submit"
           /\ task'[t].pc = "idle"
           /\ NoOtherNonceInFlight(t))
             => nonce_current' = get_transaction_count]_vars

\* ------------------------------------- the dispatch consumer after an error
\* where the consumer loop stands after execute_liquidation has returned:
\* a loop that passed the error on with `?` would be left
propagate_error(result) ==
    IF result.ok THEN "idle" ELSE "returned"

\* `if let Err(e) = ... { error!(..) }`: the error is logged and the loop
\* goes back to recv
absorb_error(result) ==
    "idle"

\* history: some execute_liquidation call of the consumer returned an error
ErrorReturned ==
    IF lastQuery = None THEN FALSE
    ELSE lastQuery.after_error \/ ~lastQuery.result.ok

\* recv yields the oldest user and execute_liquidation is called for it
DispatchBegin ==
    /\ task["consumer"].pc = "idle"
    /\ channel # <<>>
    /\ channel' = Tail(channel)
    /\ task' = [task EXCEPT !["consumer"] =
                    [pc |-> "check", phase |-> "liquidation", nonce |-> 0]]
    /\ lastQuery' = [user |-> Head(channel), result |-> Ok,
                     after_error |-> ErrorReturned]
    /\ UNCHANGED <<tracker, live, loopVars, staged, oracle, chain, job,
                   lastSends, lastTx, nonce_current, ledger, mempool,
                   submissions>>

\* execute_liquidation returns, with Ok or with one of its errors
DispatchReturns(result) ==
    /\ task["consumer"].pc = "check"
    /\ task' = [task EXCEPT !["consumer"] =
                    [pc |-> absorb_error(result), phase |-> "none",
                     nonce |-> 0]]
    /\ lastQuery' = [lastQuery EXCEPT !.result = result]
    /\ UNCHANGED <<tracker, live, loopVars, scanVars, nonce_current, ledger,
                   mempool, submissions>>

NextConsumer ==
    \/ \E u \in Users : Enqueue(u)
    \/ DispatchBegin
    \/ \E result \in AttemptOutcomes : DispatchReturns(result)

\* recv returns while the channel holds a user, and every
\* execute_liquidation call returns
SpecConsumer ==
    /\ Init
    /\ [][NextConsumer]_vars
    /\ WF_vars(DispatchBegin)
    /\ WF_vars(\E result \in AttemptOutcomes : DispatchReturns(result))

\* C37: after an execute_liquidation call of the consumer has returned an
\* error, the consumer is never left outside its loop, and whenever the
\* channel holds a user the consumer goes on to dequeue a user and call
\* execute_liquidation for it.
C37_ConsumerSurvivesErrors ==
    /\ [](task["consumer"].pc \in {"idle", "check"})
    /\ (ErrorReturned /\ channel # <<>>)
          ~> (/\ task["consumer"].pc = "check"
              /\ lastQuery.after_error)

\* the second user in the channel is being executed after the execution
\* of the first ended with a reverted transaction
C37_Witness ==
    /\ task["consumer"].pc = "check"
    /\ lastQuery # None
    /\ lastQuery.user = 2
    /\ lastQuery.after_error
    /\ channel = <<1>>

\* ------------------------------------------- expired entries of PreStager
\* the scanner with the tasks that touch the pre-stager running: the
\* critical cycle ticks, a swap-route request returns, and the consumer
\* takes what the channel holds; events and the passing of a valid_until
\* are the environment's
NextSweep ==
    \/ \E u \in ScanUsers, sa \in 0..MaxScanAmount, ba \in 0..MaxScanAmount :
           ChainActivity(u, sa, ba)
    \/ \E price \in ScanPrices(1) \ {0} : OnOracleUpdate(1, price)
    \/ \E u \in ScanUsers : OnPoolEvent(u, TRUE)
    \/ \E u \in ScanUsers : StageBegin(u, "critical_cycle")
    \/ \E route \in IF job = None THEN {} ELSE SwapRoutes(job.position) :
           StageFinish(route)
    \/ \E u \in ScanUsers : TtlElapses(u)
    \/ \E ok \in BOOLEAN :
       \E route \in IF channel = <<>> THEN {} ELSE FreshRoutes(Head(channel)) :
           Dispatch(route, ok)

SpecSweep ==
    /\ InitScanner
    /\ [][NextSweep]_vars
    /\ WF_vars(\E u \in ScanUsers : StageBegin(u, "critical_cycle"))
    /\ WF_vars(\E route \in IF job = None THEN {} ELSE SwapRoutes(job.position) :
                  StageFinish(route))
    /\ WF_vars(\E ok \in BOOLEAN :
               \E route \in IF channel = <<>> THEN {}
                            ELSE FreshRoutes(Head(channel)) :
                  Dispatch(route, ok))

\* the pre-stager holds an entry of the user whose valid_until has passed
Expired(user) ==
    IF staged[user] = None THEN FALSE ELSE ~is_valid(staged[user])

\* C38: while the scanner's periodic tasks run, an entry of the pre-stager
\* whose valid_until has passed does not stay: it is eventually removed
\* (or replaced by a fresh entry).
C38_ExpiredEventuallySwept ==
    \A u \in ScanUsers : Expired(u) ~> ~Expired(u)

\* ------------------------------------------------- scanner properties
TrackedBadDebt(user) ==
    get(tracker, user) # None /\ is_bad_debt(get(tracker, user))

HasCrossedTrigger(user, asset, old_price, new_price) ==
    \E k \in 1..Len(tracker.triggers_by_asset[asset]) :
        /\ tracker.triggers_by_asset[asset][k].user = user
        /\ is_triggered(tracker.triggers_by_asset[asset][k],
                        old_price, new_price)

WasSent(sends, user) ==
    \E k \in 1..Len(sends) : sends[k].user = user

\* C3: when the oracle moves the price of an asset and the scanner handles
\* the update, every tracked user that is not bad debt and has a trigger
\* entry on that asset crossed by the move from the previous price to the
\* new one is sent on the liquidation channel by that handling, also when
\* it is the first update received for the asset.
C3_CrossedUsersEnqueued ==
    [][\A a \in Assets : \A u \in ScanUsers :
          (/\ oracle'[a] # oracle[a]
           /\ get(tracker, u) # None
           /\ ~is_bad_debt(get(tracker, u))
           /\ HasCrossedTrigger(u, a, oracle[a], oracle'[a]))
          => WasSent(lastSends', u)]_vars

\* C4: a staged liquidation that get_valid_staged returns has not expired,
\* carries the state hash of the user's current tracked position, and has
\* no snapshot price that drifted from the cached price by more than the
\* deviation threshold.
C4_ValidStagedIsCurrent ==
    \A u \in ScanUsers :
        get_valid_staged(staged, u) # None =>
            /\ ~staged[u].expired
            /\ get(tracker, u) # None =>
                   ~is_position_changed(staged[u],
                                        compute_state_hash(get(tracker, u)))
            /\ ~is_price_stale(staged[u], tracker.prices)

\* C7: no user whose tracked position is bad debt is sent on the
\* liquidation channel, and no liquidation transaction is submitted for
\* such a user.
C7_BadDebtNeverDispatched ==
    /\ \A k \in 1..Len(lastSends) : ~lastSends[k].bad_debt
    /\ lastTx # None => ~lastTx.tracked_bad_debt

\* C8: every staged liquidation was built from a position snapshot that was
\* not bad debt when the entry was created.
C8_NoBadDebtStaged ==
    \A u \in ScanUsers :
        staged[u] # None => ~staged[u].bad_debt_when_staged

C8_Witness ==
    \E u \in ScanUsers :
        /\ staged[u] # None
        /\ ~staged[u].bad_debt_when_staged
        /\ TrackedBadDebt(u)

\* C9: a liquidation transaction that was submitted, from a staged entry or
\* built fresh, had an estimated net profit of at least min_profit_usd.
C9_SubmittedIsProfitable ==
    lastTx # None => lastTx.net_profit >= min_profit_usd

C9_Witness ==
    /\ lastTx # None
    /\ lastTx.path = "staged"
    /\ lastTx.net_profit >= min_profit_usd

\* C10: after a pool event for a user has been handled, the pre-stager
\* holds no staged liquidation for that user built from a snapshot that
\* predates the event.
C10_NoStagedFromPreEventSnapshot ==
    \A u \in ScanUsers :
        staged[u] # None => ~staged[u].from_pre_event

SnapshotContains(st, asset) ==
    \E k \in 1..Len(st.price_snapshot) : st.price_snapshot[k].asset = asset

\* C11: once the scanner has handled an oracle update that moved the price
\* of an asset, the pre-stager holds no staged liquidation whose price
\* snapshot contains that asset (every entry held right after the handling
\* was created before the update: the handler stages nothing).
C11_UpdatedAssetNotStaged ==
    [][\A a \in Assets : \A u \in ScanUsers :
          (oracle'[a] # oracle[a] /\ staged'[u] # None)
              => ~SnapshotContains(staged'[u], a)]_vars

====
